---- MODULE Spec2Model ----
(***************************************************************************)
(* A model of the acr_telemetry pipeline:                                  *)
(*   - the freshness gate  (vendor/acc_shared_memory_rs, ACCSharedMemory)  *)
(*   - the capture loop    (src/main.rs)                                   *)
(*   - the chunked log     (src/recorder.rs, src/export/rkyv_reader.rs)    *)
(*   - the exporter        (src/bin/acr_export.rs, export/sqlite_export.rs)*)
(*   - the slicer          (src/bin/acr_analysis_export.rs)                *)
(*   - the shared-memory reader (vendor/.../core/shared_memory.rs)         *)
(*   - the graphics parser (vendor/.../parsers/graphics_parser.rs)         *)
(*   - the notes           (src/notes.rs)                                  *)
(*   - the logger-format writer (src/export/motec_ld.rs)                   *)
(* The specifications share the variables; each leaves the variables of    *)
(* the other subsystems untouched:                                         *)
(*   Spec          the capture process (main.rs) from start to exit        *)
(*   SpecRecorder  the Recorder API driven by an arbitrary caller          *)
(*   SpecExport    runs of the exporter against one analytical store       *)
(*   SpecSlice     runs of the slicer against one destination store        *)
(*   SpecReader    reads of one shared-memory mapping                      *)
(*   SpecParser    one decode of one graphics segment                      *)
(*   SpecNotes     one notes file turned into the notes payload            *)
(*   SpecSync      one synthesis of sync annotations                       *)
(*   SpecLd        one write_ld, block by block                            *)
(*   SpecSliceTags runs of the slicer on annotations with several tags     *)
(*   SpecGate      one read_shared_memory on one gate state                *)
(*   SpecWait      one wait_for_data, poll by poll (SpecWaitLive: the      *)
(*                 calling thread keeps running)                           *)
(*   SpecChunks    one read_rkyv of one file, one flush of one Recorder    *)
(***************************************************************************)
EXTENDS Integers, Sequences, FiniteSets, TLC

VARIABLES
    acc,              \* ACCSharedMemory: last_physics_id, last_physics
    recorder,         \* Recorder: buffers, BufWriters and the files behind them
    pc,               \* position of main(): "start", "loop", "stopping", "done"
    exit,             \* how main() returned: "none", "ok", "decode_error"
                      \* (from the loop), "decode_error_at_start"
    RUNNING,          \* static RUNNING: AtomicBool
    stop_file,        \* whether the stop-signal file exists
    consecutive_none, \* main's consecutive-miss counter
    last_sleep,       \* the sleep of the last loop iteration: "none", "poll", "idle"
    statics,          \* statics captured by the initial read: <<>> or <<s>>
    emitted,          \* history: the frames read_shared_memory returned, in order
    observed,         \* history: last sequence_id seen in shared memory,
                      \* whether the ids seen so far never decreased, and
                      \* the frames of the session's first polls, and what
                      \* the initial read returned
    handed,           \* history: the physics records passed to Recorder::record
    handedG,          \* history: the graphics records passed to record_graphics
    files,            \* the scratch files of the notes directory, and the
                      \* <stem>.notes.json next to the raw log: <<>> or <<payload>>
    store,            \* exporter: the analytical store (telemetry.db)
    logs,             \* exporter: the raw logs on disk, by file name
    run,              \* exporter: what the last exporter run did
    sl,               \* slicer: annotation store, source store, destination, last run
    probe             \* a library function applied on its own: inputs and result

capVars == <<acc, recorder, pc, exit, RUNNING, stop_file, consecutive_none,
             last_sleep, statics, emitted, observed, handed, handedG, files>>
expVars == <<store, logs, run>>
vars == <<capVars, expVars, sl, probe>>

----------------------------------------------------------------------------
(* Bounds of the model.                                                    *)

\* at most MaxFrames frames are returned by the gate in one capture
MaxFrames == 3
\* at most MaxRecords physics records are passed to a Recorder driven directly
MaxRecords == 4
\* at most MaxGraphicsRecords graphics records are passed to such a Recorder
MaxGraphicsRecords == 2
\* flush threshold of the physics batch (333 in src/recorder.rs:15, scaled)
BUFFER_FLUSH_SAMPLES == 2
\* flush threshold of the graphics batch (60 in src/recorder.rs:16, scaled)
GRAPHICS_BUFFER_FLUSH_SAMPLES == 2
\* misses before the idle sleep (20 in src/main.rs:66, scaled)
IDLE_THRESHOLD == 2

\* u32::MAX of consecutive_none.saturating_add, scaled
U32_MAX == IDLE_THRESHOLD + 1

----------------------------------------------------------------------------
(* Program constants.                                                      *)

TARGET_HZ == 333
GRAPHICS_TARGET_HZ == 60
FILE_VERSION == 1
\* b"ACCR" and b"ACCG" as bytes, in the recorder and again in the reader
FILE_MAGIC == <<65, 67, 67, 82>>
GRAPHICS_FILE_MAGIC == <<65, 67, 67, 71>>
rkyv_reader_FILE_MAGIC == <<65, 67, 67, 82>>
rkyv_reader_GRAPHICS_FILE_MAGIC == <<65, 67, 67, 71>>
\* the header is 16 bytes: magic 4, version 2, sample rate 4, reserved 6
HEADER_BYTES == 16

----------------------------------------------------------------------------
(* Shared-memory contents and decoded frames.                              *)

\* three values of the producer's i32 sequence counter
PacketIds == {0, 1, 2}
\* suspension travel of the four wheels (two distinct groups of finite values)
Travel == {"a", "b"}
\* AccStatus::try_from accepts 0..3
AccStatusValid == 0..3
\* the variants each enum declares, by discriminant
AccStatus == {0, 1, 2, 3}
AccSessionType == {-1, 0, 1, 2, 3, 4, 5, 6, 7, 8}
AccFlagType == {0, 1, 2, 3, 4, 5, 6, 7, 8}
AccTrackGripStatus == {0, 1, 2, 3, 4, 5, 6}
AccRainIntensity == {0, 1, 2, 3, 4, 5}
AccPenaltyType == (-1)..22
AccPenaltyType_Unknown == -1
\* a conversion result: the variant's discriminant, or an error
EnumOk(v) == [ok |-> TRUE, v |-> v]
EnumErr == [ok |-> FALSE, v |-> 0]
\* the match arms of each TryFrom<i32>
AccSessionType_try_from(value) == IF value >= -1 /\ value <= 8 THEN EnumOk(value) ELSE EnumErr
AccFlagType_try_from(value) == IF value >= 0 /\ value <= 8 THEN EnumOk(value) ELSE EnumErr
AccTrackGripStatus_try_from(value) == IF value >= 0 /\ value <= 6 THEN EnumOk(value) ELSE EnumErr
AccRainIntensity_lenient(value) == EnumOk(value)
AccRainIntensity_try_from(value) == IF value >= 0 /\ value <= 5 THEN EnumOk(value) ELSE EnumErr
AccPenaltyType_try_from(value) == IF value >= -1 /\ value <= 22 THEN EnumOk(value) ELSE EnumOk(AccPenaltyType_Unknown)
\* try_enum_or_default: unwrap_or(Unknown)
try_enum_or_default(value) == IF AccPenaltyType_try_from(value).ok THEN AccPenaltyType_try_from(value).v ELSE AccPenaltyType_Unknown
\* the physics segment as the producer left it
PhysicsContents == [packet_id : PacketIds, suspension_travel : Travel]
\* the graphics segment: its packet id and its enum-valued fields
GraphicsContents == [packet_id : {0}, status : {2, 4}, session_type : {0}, flag : {0}, penalty : {0}, track_grip_status : {0}, rain_intensity : {0}, rain_intensity_in_10min : {0}, rain_intensity_in_30min : {0}]

\* PhysicsMap::is_equal: the derived PartialEq of the suspension-travel group
is_equal(p, q) == p.suspension_travel = q.suspension_travel

\* Err(...) of a parser: no map comes back
ParseError == [ok |-> FALSE, map |-> <<>>]
\* parse_graphics_map: a strict enum out of range rejects the frame
parse_graphics_map(g) ==
    IF g.status \notin AccStatusValid THEN ParseError
    ELSE IF ~AccSessionType_try_from(g.session_type).ok THEN ParseError
    ELSE IF ~AccFlagType_try_from(g.flag).ok THEN ParseError
    ELSE IF ~AccTrackGripStatus_try_from(g.track_grip_status).ok THEN ParseError
    ELSE IF ~AccRainIntensity_try_from(g.rain_intensity).ok THEN ParseError
    ELSE IF ~AccRainIntensity_try_from(g.rain_intensity_in_10min).ok THEN ParseError
    ELSE IF ~AccRainIntensity_try_from(g.rain_intensity_in_30min).ok THEN ParseError
    ELSE [ok |-> TRUE, map |-> [g EXCEPT !.penalty = try_enum_or_default(g.penalty)]]

PhysicsRecord_from_physics(p) ==
    [packet_id |-> p.packet_id, suspension_travel |-> p.suspension_travel]

\* the statics segment (car and track of the session) and record.rs 411-438
StaticsContents == [car_model : {"car_a", "car_b"}, track : {"stage"}]
StaticsRecord_from_statics(s) == [car_model |-> s.car_model, track |-> s.track]
GraphicsRecord_from_graphics(g) ==
    [packet_id |-> g.packet_id, status |-> g.status]

----------------------------------------------------------------------------
(* The freshness gate: ACCSharedMemory::read_shared_memory.                *)

ACCSharedMemory_new == [last_physics_id |-> 0, last_physics |-> <<>>]

\* both checks of read_shared_memory on the decoded physics frame
IsFreshProbeOnly(a, p) ==
    a.last_physics = <<>> \/ ~is_equal(p, a.last_physics[1])
IsFresh(a, p) ==
    /\ p.packet_id # a.last_physics_id
    /\ (a.last_physics = <<>> \/ ~is_equal(p, a.last_physics[1]))

\* the assignments made on a hit
GateStoreNothing(a, p) == a
GateStoreIdOnly(a, p) == [a EXCEPT !.last_physics_id = p.packet_id]
GateStore(a, p) == [last_physics_id |-> p.packet_id, last_physics |-> <<p>>]

\* a gate that stores the frame before the other segments are decoded
read_shared_memory_store_first(a, p, g) ==
    IF ~IsFresh(a, p) THEN [kind |-> "none", acc |-> a]
    ELSE [kind |-> IF parse_graphics_map(g).ok THEN "some" ELSE "err", acc |-> GateStore(a, p)]
\* result: kind "some" (aggregate returned), "none" (no new data), "err"
read_shared_memory(a, p, g) ==
    IF ~IsFresh(a, p)
    THEN [kind |-> "none", acc |-> a]
    ELSE IF ~parse_graphics_map(g).ok
         THEN [kind |-> "err", acc |-> a]
         ELSE [kind |-> "some", acc |-> GateStore(a, p)]

----------------------------------------------------------------------------
(* The chunked log: Recorder and its readers.  A file is a sequence of     *)
(* cells; a cell stands for a fixed-width run of bytes.  The header is     *)
(* four cells (magic, version, rate, reserved), a chunk is a length cell   *)
(* followed by its payload, and the payload of k records is k record       *)
(* cells followed by the root cell of the archived vector.                 *)

Cell(tag, n, rec) == [tag |-> tag, n |-> n, rec |-> rec]

Pow256(k) == IF k = 0 THEN 1 ELSE IF k = 1 THEN 256 ELSE IF k = 2 THEN 65536 ELSE 16777216
\* u16::to_le_bytes / u32::to_le_bytes: width bytes, least significant first
to_be_bytes(v, width) == [i \in 1..width |-> (v \div Pow256(width - i)) % 256]
to_le_bytes(v, width) == [i \in 1..width |-> (v \div Pow256(i - 1)) % 256]
\* u16::from_le_bytes / u32::from_le_bytes
RECURSIVE from_le_bytes(_)
from_le_bytes(b) ==
    IF b = <<>> THEN 0
    ELSE from_le_bytes(SubSeq(b, 1, Len(b) - 1)) + b[Len(b)] * Pow256(Len(b) - 1)

Bytes(b) == [i \in 1..Len(b) |-> Cell("byte", b[i], <<>>)]
Values(cells) == [i \in 1..Len(cells) |-> cells[i].n]

\* recorder.rs 42-45 and 53-56: the bytes written by Recorder::new
Header(magic, hz) ==
    Bytes(magic \o to_le_bytes(FILE_VERSION, 2) \o to_le_bytes(hz, 4)
          \o <<0, 0, 0, 0, 0, 0>>)

\* rkyv::to_bytes of a Vec: the elements, then the root (its length)
to_bytes(records) ==
    [i \in 1..(Len(records) + 1) |->
        IF i <= Len(records) THEN Cell("rec", 0, <<records[i]>>)
        ELSE Cell("root", Len(records), <<>>)]

\* rkyv::from_bytes_unchecked: the root is the last cell, the elements precede it
from_bytes_unchecked(chunk) ==
    LET k == chunk[Len(chunk)].n
        first == Len(chunk) - k
    IN  IF k < 0 \/ first < 1 THEN [ok |-> FALSE, records |-> <<>>]
        ELSE [ok |-> TRUE,
              records |-> [i \in 1..k |-> chunk[first + i - 1].rec[1]]]

\* format_meta.rs 80-160: the sidecar <log>.json, written for the path it is
\* given; magic and rate are literals of the function ("ACCR", 333)
\* statics is the Option the caller passes: <<>> or <<record>>
write_format_metadata(binary_file, statics_opt) == [binary_file |-> binary_file, magic |-> <<65, 67, 67, 82>>, sample_rate_hz |-> 333, root_type |-> "Vec<PhysicsRecord>", statics |-> statics_opt]

Recorder_new(statics_opt, enable_graphics) ==
    [ buffer |-> <<>>,
      json |-> <<write_format_metadata("physics", statics_opt)>>,
      graphics_json |-> <<>>,
      writer |-> Header(FILE_MAGIC, TARGET_HZ),
      file |-> <<>>,
      graphics_enabled |-> enable_graphics,
      graphics_buffer |-> <<>>,
      graphics_writer |-> IF enable_graphics
                          THEN Header(GRAPHICS_FILE_MAGIC, GRAPHICS_TARGET_HZ)
                          ELSE <<>>,
      graphics_file |-> <<>>,
      sample_count |-> 0,
      graphics_sample_count |-> 0,
      state |-> "open" ]

\* no Recorder was constructed (yet)
NoRecorder == [Recorder_new(<<>>, FALSE) EXCEPT !.writer = <<>>, !.json = <<>>, !.state = "absent"]

\* the chunk as written: length prefix, then the payload
ChunkBadLen(bytes) == <<Cell("u32", Len(bytes) - 1, <<>>)>> \o bytes
Chunk(bytes) == <<Cell("u32", Len(bytes), <<>>)>> \o bytes

flushAlways(r) == [r EXCEPT !.buffer = <<>>, !.writer = <<>>, !.file = r.file \o r.writer \o Chunk(to_bytes(r.buffer))]
flush(r) ==
    IF r.buffer = <<>> THEN r
    ELSE [r EXCEPT !.buffer = <<>>,
                   !.writer = <<>>,
                   !.file = r.file \o r.writer \o Chunk(to_bytes(r.buffer))]

flush_graphics(r) ==
    IF ~r.graphics_enabled \/ r.graphics_buffer = <<>> THEN r
    ELSE [r EXCEPT !.graphics_buffer = <<>>,
                   !.graphics_writer = <<>>,
                   !.graphics_file = r.graphics_file \o r.graphics_writer
                                     \o Chunk(to_bytes(r.graphics_buffer))]

recordFlushLate(r, x) ==
    LET r1 == [r EXCEPT !.buffer = Append(r.buffer, x), !.sample_count = r.sample_count + 1]
    IN  IF Len(r1.buffer) > BUFFER_FLUSH_SAMPLES THEN flush(r1) ELSE r1
record(r, x) ==
    LET r1 == [r EXCEPT !.buffer = Append(r.buffer, x),
                        !.sample_count = r.sample_count + 1]
    IN  IF Len(r1.buffer) >= BUFFER_FLUSH_SAMPLES THEN flush(r1) ELSE r1

record_graphics(r, x) ==
    IF ~r.graphics_enabled THEN r
    ELSE LET r1 == [r EXCEPT !.graphics_buffer = Append(r.graphics_buffer, x),
                             !.graphics_sample_count = r.graphics_sample_count + 1]
         IN  IF Len(r1.graphics_buffer) >= GRAPHICS_BUFFER_FLUSH_SAMPLES
             THEN flush_graphics(r1) ELSE r1

\* the fields dropped after Drop::drop ran: each BufWriter writes what it holds
DropWriters(r) ==
    [r EXCEPT !.writer = <<>>, !.file = r.file \o r.writer,
              !.graphics_writer = <<>>,
              !.graphics_file = r.graphics_file \o r.graphics_writer,
              !.state = "dropped"]

\* impl Drop for Recorder, then the drop of its fields
RecorderDropNoGraphics(r) == DropWriters(flush(r))
RecorderDrop(r) == DropWriters(flush_graphics(flush(r)))

\* rkyv_reader.rs 41-43 and 55: `break` on a zero length prefix, then Ok with
\* the records collected so far
BreakAtZeroDropping(acc_records) == [ok |-> TRUE, records |-> <<>>]
BreakAtZero(acc_records) == [ok |-> TRUE, records |-> acc_records]

\* the chunk loop of read_rkyv / read_graphics_rkyv from cell p on
RECURSIVE ReadChunks(_, _, _)
ReadChunks(f, p, acc_records) ==
    IF p > Len(f) THEN [ok |-> TRUE, records |-> acc_records]
    ELSE LET chunk_len == f[p].n IN
         IF chunk_len = 0 THEN BreakAtZero(acc_records)
         ELSE IF p + chunk_len > Len(f) THEN [ok |-> FALSE, records |-> <<>>]
         ELSE LET d == from_bytes_unchecked(SubSeq(f, p + 1, p + chunk_len)) IN
              IF ~d.ok THEN [ok |-> FALSE, records |-> <<>>]
              ELSE ReadChunks(f, p + chunk_len + 1, acc_records \o d.records)

\* version is the value decoded into the local _version, which the reader
\* neither checks nor returns
ReadFailed == [ok |-> FALSE, version |-> 0, sample_rate |-> 0, records |-> <<>>]
ReadLog(f, magic) ==
    IF Len(f) < 4 \/ Values(SubSeq(f, 1, 4)) # magic THEN ReadFailed
    ELSE IF Len(f) < HEADER_BYTES THEN ReadFailed
    ELSE LET c == ReadChunks(f, HEADER_BYTES + 1, <<>>) IN
         IF ~c.ok THEN ReadFailed
         ELSE [ok |-> TRUE,
               version |-> from_le_bytes(Values(SubSeq(f, 5, 6))),
               sample_rate |-> from_le_bytes(Values(SubSeq(f, 7, 10))),
               records |-> c.records]

read_rkyv(f) == ReadLog(f, rkyv_reader_FILE_MAGIC)
read_graphics_rkyv(f) == ReadLog(f, rkyv_reader_GRAPHICS_FILE_MAGIC)

----------------------------------------------------------------------------
(* The capture process: main() of src/main.rs.                             *)

\* notes.rs 15-27: acr_notes, acr_elapsed_secs and the acr_<field> files
\* (one of the eight field names)
NOTES_FILENAME == "acr_notes"
ELAPSED_FILENAME == "acr_elapsed_secs"
FieldFiles == {"acr_laptime"}
NoFiles == [scratch |-> {}, notes_json |-> <<>>]

\* notes.rs 59-72
reset_notes_at_start(f) == [f EXCEPT !.scratch = {}]
\* notes.rs 74-78
write_elapsed_secs(f) == [f EXCEPT !.scratch = f.scratch \cup {ELAPSED_FILENAME}]
\* a save that leaves acr_elapsed_secs in the notes directory
save_notes_keep_elapsed(f, write_fail) == [scratch |-> f.scratch \cap {ELAPSED_FILENAME}, notes_json |-> <<[notes |-> NOTES_FILENAME \in f.scratch, fields |-> f.scratch \cap FieldFiles]>>]
\* notes.rs 138-191; write_fail: std::fs::write of the JSON returns an error,
\* after the field files were read and removed
save_notes_to_json(f, write_fail) ==
    IF write_fail THEN [f EXCEPT !.scratch = f.scratch \ FieldFiles]
    ELSE [scratch |-> {}, notes_json |-> <<[notes |-> NOTES_FILENAME \in f.scratch, fields |-> f.scratch \cap FieldFiles]>>]

CapIdle ==
    /\ acc = ACCSharedMemory_new /\ recorder = NoRecorder
    /\ pc = "off" /\ exit = "none" /\ RUNNING = TRUE /\ stop_file = FALSE
    /\ consecutive_none = 0 /\ last_sleep = "none" /\ statics = <<>>
    /\ emitted = <<>> /\ observed = [seen |-> FALSE, last |-> 0, nondecreasing |-> TRUE, lead |-> <<>>, off |-> FALSE, initial |-> <<>>]
    /\ handed = <<>> /\ handedG = <<>> /\ files = NoFiles
ExpIdle == store = <<>> /\ logs = <<>> /\ run = <<>>
SlIdle == sl = <<>>
ProbeIdle == probe = <<>>

\* history: the frames of the first polls of the session, kept while they are
\* one frame shown three times and then a frame with another sequence_id and
\* another suspension travel; off once the polls leave that pattern
LeadGoesOn(o, p) ==
    /\ ~o.off
    /\ \/ o.lead = <<>>
       \/ Len(o.lead) \in {1, 2} /\ p = o.lead[1]
       \/ Len(o.lead) = 3 /\ p.packet_id # o.lead[1].packet_id /\ ~is_equal(p, o.lead[1])
\* the producer's counter as the reader saw it at this poll
Observe(p) ==
    [seen |-> TRUE, last |-> p.packet_id,
     nondecreasing |-> observed.nondecreasing
                       /\ (observed.seen => p.packet_id >= observed.last),
     lead |-> IF LeadGoesOn(observed, p) THEN Append(observed.lead, p) ELSE <<>>,
     off |-> ~LeadGoesOn(observed, p),
     initial |-> observed.initial]

Init ==
    /\ acc = ACCSharedMemory_new
    /\ recorder = NoRecorder
    /\ pc = "start"
    /\ exit = "none"
    /\ RUNNING = TRUE
    /\ stop_file \in BOOLEAN
    /\ consecutive_none = 0
    /\ last_sleep = "none"
    /\ statics = <<>>
    /\ emitted = <<>>
    /\ observed = [seen |-> FALSE, last |-> 0, nondecreasing |-> TRUE, lead |-> <<>>, off |-> FALSE, initial |-> <<>>]
    /\ handed = <<>>
    /\ handedG = <<>>
    \* scratch files an earlier session may have left behind
    /\ \E stale \in {{}, {NOTES_FILENAME}} : files = [scratch |-> stale, notes_json |-> <<>>]
    /\ ExpIdle /\ SlIdle /\ ProbeIdle

\* main.rs 47-62: remove a stale stop file, the initial read, Recorder::new
CaptureStaticsAlways(kind, s) == <<StaticsRecord_from_statics(s)>>
CaptureStatics(kind, s) == IF kind = "some" THEN <<StaticsRecord_from_statics(s)>> ELSE <<>>

MainStart(p, g, s, enable_graphics) ==
    /\ pc = "start"
    /\ LET res == read_shared_memory(acc, p, g) IN
       /\ acc' = res.acc
       \* history: what the initial read returned, and the statics segment
       \* inside the aggregate when it returned one
       /\ observed' = [Observe(p) EXCEPT !.initial = <<[kind |-> res.kind, statics |-> IF res.kind = "some" THEN <<s>> ELSE <<>>]>>]
       /\ stop_file' = FALSE
       /\ files' = reset_notes_at_start(files)
       /\ emitted' = IF res.kind = "some" THEN Append(emitted, p) ELSE emitted
       /\ IF res.kind = "err"
          THEN /\ pc' = "done" /\ exit' = "decode_error_at_start"
               /\ UNCHANGED <<recorder, statics>>
          ELSE /\ pc' = "loop" /\ exit' = exit
               /\ statics' = CaptureStatics(res.kind, s)
               /\ recorder' = Recorder_new(CaptureStatics(res.kind, s), enable_graphics)
    /\ UNCHANGED <<RUNNING, consecutive_none, last_sleep, handed, handedG>>
    /\ UNCHANGED <<expVars, sl, probe>>

\* main.rs 73: RUNNING.load() && !stop_requested(&stop_path)
LoopContinuesIgnoringFile(running, file_exists) == running
LoopContinues(running, file_exists) == running /\ ~file_exists

\* main.rs 73: the loop condition is false
LoopExit ==
    /\ pc = "loop"
    /\ ~LoopContinues(RUNNING, stop_file)
    \* stop_requested runs only when RUNNING is set, and deletes the file
    /\ stop_file' = IF RUNNING THEN FALSE ELSE stop_file
    /\ pc' = "stopping"
    /\ UNCHANGED <<acc, recorder, exit, RUNNING, consecutive_none, last_sleep,
                   statics, emitted, observed, handed, handedG>>
    /\ UNCHANGED <<expVars, sl, probe, files>>

\* the sleep chosen after a miss (main.rs 104-111)
SleepAlwaysPoll(c) == "poll"
SleepAfterMiss(c) == IF c >= IDLE_THRESHOLD THEN "idle" ELSE "poll"

\* what the loop does with a decode error of read_shared_memory (main.rs 74)
OnDecodeError == [pc |-> "done", exit |-> "decode_error", drop |-> TRUE]

\* main.rs 73-113: one iteration whose loop condition is true; of the
\* aggregate it reads data.physics and data.graphics, never data.statics;
\* graphics_due is last_graphics_capture.elapsed() >= graphics_interval
LoopBody(p, g, graphics_due, elapsed_due) ==
    /\ pc = "loop"
    /\ LoopContinues(RUNNING, stop_file)
    /\ LET res == read_shared_memory(acc, p, g) IN
       /\ res.kind = "some" => Len(emitted) < MaxFrames
       /\ acc' = res.acc
       /\ observed' = Observe(p)
       /\ CASE res.kind = "err" ->
                 /\ pc' = OnDecodeError.pc /\ exit' = OnDecodeError.exit
                 /\ recorder' = IF OnDecodeError.drop THEN RecorderDrop(recorder)
                                ELSE recorder
                 /\ UNCHANGED <<consecutive_none, last_sleep, emitted, handed, handedG, files>>
            [] res.kind = "some" ->
                 LET x == PhysicsRecord_from_physics(p)
                     gx == GraphicsRecord_from_graphics(g)
                     r1 == record(recorder, x)
                     doG == recorder.graphics_enabled /\ graphics_due
                 IN  /\ consecutive_none' = 0
                     /\ last_sleep' = "none"
                     /\ recorder' = IF doG THEN record_graphics(r1, gx) ELSE r1
                     /\ emitted' = Append(emitted, p)
                     /\ handed' = Append(handed, x)
                     /\ handedG' = IF doG THEN Append(handedG, gx) ELSE handedG
                     /\ files' = IF elapsed_due THEN write_elapsed_secs(files) ELSE files
                     /\ UNCHANGED <<pc, exit>>
            [] res.kind = "none" ->
                 LET c == IF consecutive_none < U32_MAX
                          THEN consecutive_none + 1 ELSE consecutive_none
                 IN  /\ consecutive_none' = c
                     /\ last_sleep' = SleepAfterMiss(c)
                     /\ UNCHANGED <<pc, exit, recorder, emitted, handed, handedG, files>>
    /\ UNCHANGED <<RUNNING, stop_file, statics>>
    /\ UNCHANGED <<expVars, sl, probe>>

\* what leaves scope when main returns after the loop (main.rs 115-131)
MainEnd(r) == RecorderDrop(flush(r))

\* main.rs 115-131: the final flush, then main returns and the Recorder drops
MainFinish(write_fail) ==
    /\ pc = "stopping"
    /\ recorder' = MainEnd(recorder)
    /\ files' = save_notes_to_json(files, write_fail)
    /\ pc' = "done"
    /\ exit' = "ok"
    /\ UNCHANGED <<acc, RUNNING, stop_file, consecutive_none, last_sleep,
                   statics, emitted, observed, handed, handedG>>
    /\ UNCHANGED <<expVars, sl, probe>>

\* main.rs 154-159: the interrupt handler
ctrlc_handler ==
    /\ pc \in {"start", "loop"}
    /\ RUNNING
    /\ RUNNING' = FALSE
    /\ UNCHANGED <<acc, recorder, pc, exit, stop_file, consecutive_none,
                   last_sleep, statics, emitted, observed, handed, handedG>>
    /\ UNCHANGED <<expVars, sl, probe, files>>

\* an outside script writes a note or a field file during the session.  The
\* capture reads these files only in save_notes_to_json, so a write made at
\* any time after the reset is taken here just before the save.
WriteScratch(name) ==
    /\ pc = "stopping"
    /\ name \notin files.scratch
    /\ files' = [files EXCEPT !.scratch = files.scratch \cup {name}]
    /\ UNCHANGED <<acc, recorder, pc, exit, RUNNING, stop_file, consecutive_none,
                   last_sleep, statics, emitted, observed, handed, handedG>>
    /\ UNCHANGED <<expVars, sl, probe>>

\* an outside script creates the stop-signal file
CreateStopFile ==
    /\ pc \in {"start", "loop"}
    /\ ~stop_file
    /\ stop_file' = TRUE
    /\ UNCHANGED <<acc, recorder, pc, exit, RUNNING, consecutive_none,
                   last_sleep, statics, emitted, observed, handed, handedG>>
    /\ UNCHANGED <<expVars, sl, probe, files>>

Next ==
    \/ \E p \in PhysicsContents, g \in GraphicsContents, s \in StaticsContents, eg \in BOOLEAN :
           MainStart(p, g, s, eg)
    \/ LoopExit
    \/ \E p \in PhysicsContents, g \in GraphicsContents, due \in BOOLEAN, elapsed_due \in BOOLEAN :
           LoopBody(p, g, due, elapsed_due)
    \/ \E write_fail \in BOOLEAN : MainFinish(write_fail)
    \/ \E name \in {NOTES_FILENAME} \cup FieldFiles : WriteScratch(name)
    \/ ctrlc_handler
    \/ CreateStopFile

Spec == Init /\ [][Next]_vars

----------------------------------------------------------------------------
(* The Recorder driven directly: any order of record, record_graphics,     *)
(* flush and flush_graphics calls, then the drop.                          *)

ApiPhysicsRecords == [packet_id : PacketIds, suspension_travel : {"a"}]
ApiGraphicsRecords == [packet_id : {0, 1}, status : {2}]

InitRecorder ==
    /\ acc = ACCSharedMemory_new
    /\ \E eg \in BOOLEAN : recorder = Recorder_new(<<>>, eg)
    /\ pc = "api"
    /\ exit = "none"
    /\ RUNNING = TRUE
    /\ stop_file = FALSE
    /\ consecutive_none = 0
    /\ last_sleep = "none"
    /\ statics = <<>>
    /\ emitted = <<>>
    /\ observed = [seen |-> FALSE, last |-> 0, nondecreasing |-> TRUE, lead |-> <<>>, off |-> FALSE, initial |-> <<>>]
    /\ handed = <<>>
    /\ handedG = <<>>
    /\ files = NoFiles
    /\ ExpIdle /\ SlIdle /\ ProbeIdle

apiFrame == <<acc, pc, exit, RUNNING, stop_file, consecutive_none, last_sleep,
              statics, emitted, observed, files>>

ApiRecord(x) ==
    /\ recorder.state = "open"
    /\ Len(handed) < MaxRecords
    /\ recorder' = record(recorder, x)
    /\ handed' = Append(handed, x)
    /\ UNCHANGED <<handedG, apiFrame, expVars, sl, probe>>

ApiRecordGraphics(x) ==
    /\ recorder.state = "open"
    /\ Len(handedG) < MaxGraphicsRecords
    /\ recorder' = record_graphics(recorder, x)
    /\ handedG' = IF recorder.graphics_enabled THEN Append(handedG, x) ELSE handedG
    /\ UNCHANGED <<handed, apiFrame, expVars, sl, probe>>

ApiFlush ==
    /\ recorder.state = "open"
    /\ recorder' = flush(recorder)
    /\ UNCHANGED <<handed, handedG, apiFrame, expVars, sl, probe>>

ApiFlushGraphics ==
    /\ recorder.state = "open"
    /\ recorder' = flush_graphics(recorder)
    /\ UNCHANGED <<handed, handedG, apiFrame, expVars, sl, probe>>

ApiDrop ==
    /\ recorder.state = "open"
    /\ recorder' = RecorderDrop(recorder)
    /\ UNCHANGED <<handed, handedG, apiFrame, expVars, sl, probe>>

NextRecorder ==
    \/ \E x \in ApiPhysicsRecords : ApiRecord(x)
    \/ \E x \in ApiGraphicsRecords : ApiRecordGraphics(x)
    \/ ApiFlush
    \/ ApiFlushGraphics
    \/ ApiDrop

SpecRecorder == InitRecorder /\ [][NextRecorder]_vars

----------------------------------------------------------------------------
(* The exporter: acr_export in SQLite mode.  f64 values are kept as exact  *)
(* fractions n/d (d > 0); rounding of f64 arithmetic is not modelled.      *)

\* at most MaxSamples physics records in a raw log given to the exporter
MaxSamples == 3
\* at most MaxRuns runs of the exporter
MaxRuns == 2

Rat(n, d) == [n |-> n, d |-> d]
RatMul(a, b) == Rat(a.n * b.n, a.d * b.d)
RatEq(a, b) == a.n * b.d = b.n * a.d
RatLe(a, b) == a.n * b.d <= b.n * a.d

\* the records of the raw logs given to the exporter, with the fields it reads
ColdRecord(id) == [packet_id |-> id, air_temp |-> 0, speed_kmh |-> 0]
WarmRecord(id) == [packet_id |-> id, air_temp |-> 1, speed_kmh |-> 4]
SampleRecords(n) ==
    [i \in 1..n |-> IF i % 2 = 1 THEN ColdRecord(i) ELSE WarmRecord(i)]
SampleGraphics == << [packet_id |-> 1, status |-> 2], [packet_id |-> 2, status |-> 2] >>

\* a raw log as the Recorder leaves it: header, then the records in chunks
\* of at most BUFFER_FLUSH_SAMPLES
RECURSIVE Chunks(_)
Chunks(records) ==
    IF records = <<>> THEN <<>>
    ELSE IF Len(records) <= BUFFER_FLUSH_SAMPLES THEN Chunk(to_bytes(records))
    ELSE Chunk(to_bytes(SubSeq(records, 1, BUFFER_FLUSH_SAMPLES)))
         \o Chunks(SubSeq(records, BUFFER_FLUSH_SAMPLES + 1, Len(records)))
PhysicsLogFile(records) == Header(FILE_MAGIC, TARGET_HZ) \o Chunks(records)
GraphicsLogFile(records) ==
    Header(GRAPHICS_FILE_MAGIC, GRAPHICS_TARGET_HZ) \o Chunks(records)

\* <stem>.notes.json as read_notes_json returns it: None or Some(content, annotations)
UserAnnotation ==
    [time_offset_sec |-> Rat(1, 1000), time_end_sec |-> <<>>,
     text |-> [fmt |-> "good", arg |-> 0], tag |-> "good"]
\* a user annotation after the sync annotations, listed first in the bundle
LateAnnotation ==
    [time_offset_sec |-> Rat(5, 1000), time_end_sec |-> <<>>,
     text |-> [fmt |-> "aborted", arg |-> 0], tag |-> "aborted"]
NotesOptions ==
    { <<>>, << [content |-> "notes", annotations |-> <<LateAnnotation, UserAnnotation>>] >> }

\* what lies on disk for one raw log: the log, the paired graphics log
\* (<<>> when absent), whether <log>.json carries statics, the notes JSON
LogNames == {"a.rkyv", "b.rkyv"}
\* rkyv_files.sort()
SortedLogNames == <<"a.rkyv", "b.rkyv">>
LogOptionsA ==
    [ file : {PhysicsLogFile(SampleRecords(n)) : n \in 0..MaxSamples},
      graphics : { <<>>, <<GraphicsLogFile(SampleGraphics)>>,
                   <<PhysicsLogFile(SampleRecords(1))>> },
      statics : BOOLEAN,
      notes : NotesOptions ]
LogOptionsB ==
    [ file : {PhysicsLogFile(SampleRecords(n)) : n \in {0, 2}},
      graphics : { <<>>, <<GraphicsLogFile(SampleGraphics)>> },
      statics : {FALSE},
      notes : {<<>>} ]

\* the analytical store: whether the file exists, the AUTOINCREMENT counters
\* (sqlite_sequence) and the tables, each in rowid order
EmptyStore ==
    [ exists |-> FALSE, seq |-> 0, ann_seq |-> 0,
      recordings |-> <<>>, statics |-> <<>>, recording_notes |-> <<>>,
      annotations |-> <<>>, physics |-> <<>>, graphics |-> <<>> ]

Tables(st) ==
    [ recordings |-> st.recordings, statics |-> st.statics,
      recording_notes |-> st.recording_notes, annotations |-> st.annotations,
      physics |-> st.physics, graphics |-> st.graphics ]

\* acr_export.rs 24-51
RECURSIVE SyncScan(_, _, _, _)
SyncScan(records, dt_sec, i, added_first_speed) ==
    IF i > Len(records) THEN <<>>
    ELSE LET r == records[i]
             t == RatMul(Rat(i - 1, 1), dt_sec)
             air == r.air_temp > 0 /\ (i = 1 \/ records[i - 1].air_temp <= 0)
             spd == ~added_first_speed /\ r.speed_kmh > 3
                    /\ (i = 1 \/ records[i - 1].speed_kmh <= 3)
         IN  (IF air THEN << [time_offset_sec |-> t, time_end_sec |-> <<>>,
                              text |-> [fmt |-> "air_temp > 0", arg |-> r.air_temp],
                              tag |-> "sync_air_temp_gt_0"] >>
              ELSE <<>>)
             \o (IF spd THEN << [time_offset_sec |-> t, time_end_sec |-> <<>>,
                                 text |-> [fmt |-> "speed_kmh > 3", arg |-> r.speed_kmh],
                                 tag |-> "sync_speed_gt_0"] >>
                 ELSE <<>>)
             \o SyncScan(records, dt_sec, i + 1, added_first_speed \/ spd)

\* Vec::sort_by on time_offset_sec: a stable sort
RECURSIVE InsertByTime(_, _)
InsertByTime(sorted, a) ==
    IF sorted = <<>> THEN <<a>>
    ELSE LET last == sorted[Len(sorted)] IN
         IF RatLe(last.time_offset_sec, a.time_offset_sec) THEN Append(sorted, a)
         ELSE Append(InsertByTime(SubSeq(sorted, 1, Len(sorted) - 1), a), last)
SortNot(s) == s
RECURSIVE SortByTime(_)
SortByTime(s) ==
    IF s = <<>> THEN <<>>
    ELSE InsertByTime(SortByTime(SubSeq(s, 1, Len(s) - 1)), s[Len(s)])

sync_annotations_skip_first(records, dt_sec) == SortByTime(SyncScan(records, dt_sec, 2, FALSE))
sync_annotations_from_physics(records, dt_sec) ==
    SortByTime(SyncScan(records, dt_sec, 1, FALSE))

\* sqlite_export.rs 189-200
recording_exists(st, source_file) ==
    /\ st.exists
    /\ \E i \in DOMAIN st.recordings : st.recordings[i].source_file = source_file

\* sqlite_export.rs 362-363: the time offset of the record at index i (0-based)
TimeOffsetOneBased(i, dt) == RatMul(Rat(i + 1, 1), dt)
TimeOffset(i, dt) == RatMul(Rat(i, 1), dt)

\* sqlite_export.rs 220-610.  fail = "physics_tx": a statement of the
\* transaction fails and the transaction rolls back.
export_to_sqlite(st, source_file, records, sample_rate_hz, has_statics, notes_content, annotations, fail) ==
    LET opened == [st EXCEPT !.exists = TRUE]
        dt == Rat(1, sample_rate_hz)
        duration_secs == RatMul(Rat(Len(records), 1), dt)
        recording_id == st.seq + 1
        recRow == [id |-> recording_id, source_file |-> source_file,
                   duration_secs |-> duration_secs, sample_count |-> Len(records)]
        noteRow == [recording_id |-> recording_id, notes |-> notes_content]
        annRows == [i \in 1..Len(annotations) |->
                       [id |-> st.ann_seq + i, recording_id |-> recording_id,
                        time_offset_sec |-> annotations[i].time_offset_sec,
                        time_end_sec |-> annotations[i].time_end_sec,
                        text |-> annotations[i].text, tag |-> annotations[i].tag]]
        physRows == [i \in 1..Len(records) |->
                       [recording_id |-> recording_id,
                        time_offset |-> TimeOffset(i - 1, dt),
                        packet_id |-> records[i].packet_id]]
        statRow == [recording_id |-> recording_id, filled |-> has_statics]
    IN  IF fail = "physics_tx"
        THEN [ok |-> FALSE, store |-> opened, rid |-> 0]
        ELSE [ok |-> TRUE, rid |-> recording_id,
              store |-> [opened EXCEPT
                  !.seq = recording_id,
                  !.ann_seq = st.ann_seq + Len(annotations),
                  !.recordings = Append(st.recordings, recRow),
                  !.recording_notes = Append(st.recording_notes, noteRow),
                  !.annotations = st.annotations \o annRows,
                  !.physics = st.physics \o physRows,
                  !.statics = Append(st.statics, statRow)]]

\* sqlite_export.rs 617-774.  fail = "graphics_tx": a statement of this
\* transaction fails and it rolls back.
export_graphics_replacing(st, recording_id, graphics_records, sample_rate_hz, fail) == IF fail = "graphics_tx" THEN [ok |-> FALSE, store |-> st] ELSE [ok |-> TRUE, store |-> [st EXCEPT !.graphics = [i \in 1..Len(graphics_records) |-> [recording_id |-> recording_id, time_offset |-> TimeOffset(i - 1, Rat(1, sample_rate_hz)), packet_id |-> graphics_records[i].packet_id]]]]
export_graphics_to_sqlite(st, recording_id, graphics_records, sample_rate_hz, fail) ==
    LET dt == Rat(1, sample_rate_hz)
        rows == [i \in 1..Len(graphics_records) |->
                    [recording_id |-> recording_id,
                     time_offset |-> TimeOffset(i - 1, dt),
                     packet_id |-> graphics_records[i].packet_id]]
    IN  IF fail = "graphics_tx"
        THEN [ok |-> FALSE, store |-> st]
        ELSE [ok |-> TRUE, store |-> [st EXCEPT !.graphics = st.graphics \o rows]]

\* "exists_check": the query of recording_exists fails (batch mode only)
FailKinds == {"none", "physics_tx", "graphics_tx", "exists_check"}

\* acr_export.rs 254-325 with do_sqlite
export_single(st, name, log, fail) ==
    LET read == read_rkyv(log.file) IN
    IF ~read.ok THEN [result |-> "err_read", store |-> st]
    ELSE IF read.records = <<>> THEN [result |-> "err_no_records", store |-> st]
    ELSE
    LET user == IF log.notes = <<>> THEN <<>> ELSE log.notes[1].annotations
        notes_content == IF log.notes = <<>> THEN "NULL" ELSE log.notes[1].content
        dt_sec == Rat(1, read.sample_rate)
        all_annotations ==
            SortByTime(sync_annotations_from_physics(read.records, dt_sec) \o user)
        e == export_to_sqlite(st, name, read.records, read.sample_rate,
                              log.statics, notes_content, all_annotations, fail)
    IN  IF ~e.ok THEN [result |-> "err_db", store |-> e.store]
        ELSE IF log.graphics = <<>> THEN [result |-> "ok", store |-> e.store]
        ELSE
        LET g == read_graphics_rkyv(log.graphics[1]) IN
        IF ~g.ok THEN [result |-> "err_graphics_read", store |-> e.store]
        ELSE LET x == export_graphics_to_sqlite(e.store, e.rid, g.records,
                                                g.sample_rate, fail)
             IN  IF ~x.ok THEN [result |-> "err_graphics_db", store |-> x.store]
                 ELSE [result |-> "ok", store |-> x.store]

\* acr_export.rs 217-248: the files of the directory from position i on;
\* fl gives the failure injected while each file is exported
RECURSIVE BatchFrom(_, _, _, _)
BatchFrom(st, lg, fl, i) ==
    IF i > Len(SortedLogNames) THEN [ok |-> TRUE, store |-> st, outcomes |-> <<>>]
    ELSE LET name == SortedLogNames[i] IN
         \* recording_exists(...)?: the error leaves batch_export at once; a
         \* store that does not exist yet is never opened
         IF st.exists /\ fl[name] = "exists_check"
         THEN [ok |-> FALSE, store |-> st, outcomes |-> <<"err_exists_check">>]
         ELSE IF recording_exists(st, name)
         THEN LET rest == BatchFrom(st, lg, fl, i + 1) IN
              [ok |-> rest.ok, store |-> rest.store, outcomes |-> <<"skipped">> \o rest.outcomes]
         ELSE LET one == export_single(st, name, lg[name], fl[name])
                  rest == BatchFrom(one.store, lg, fl, i + 1)
              IN  [ok |-> rest.ok, store |-> rest.store, outcomes |-> <<one.result>> \o rest.outcomes]

\* acr_export.rs 196-252 with do_sqlite
batch_export(st, lg, fl) == BatchFrom(st, lg, fl, 1)

NoRun == [count |-> 0, mode |-> "none", name |-> "", outcomes |-> <<>>,
          before |-> EmptyStore, ok |-> TRUE]

InitExport ==
    /\ CapIdle
    /\ store = EmptyStore
    /\ logs \in [LogNames -> LogOptionsA \cup LogOptionsB]
    /\ logs["a.rkyv"] \in LogOptionsA
    /\ logs["b.rkyv"] \in LogOptionsB
    /\ run = NoRun
    /\ SlIdle
    /\ ProbeIdle

\* acr_export <input.rkyv> --sqlite
ExportSingleRun(name, fail) ==
    /\ run.count < MaxRuns
    /\ LET one == export_single(store, name, logs[name], fail) IN
       /\ store' = one.store
       /\ run' = [count |-> run.count + 1, mode |-> "single", name |-> name,
                  outcomes |-> <<one.result>>, before |-> store,
                  ok |-> one.result = "ok"]
    /\ UNCHANGED <<logs, capVars, sl, probe>>

\* acr_export <directory> --sqlite
ExportBatchRun(fl) ==
    /\ run.count < MaxRuns
    /\ LET b == batch_export(store, logs, fl) IN
       /\ store' = b.store
       /\ run' = [count |-> run.count + 1, mode |-> "batch", name |-> "",
                  outcomes |-> b.outcomes, before |-> store, ok |-> b.ok]
    /\ UNCHANGED <<logs, capVars, sl, probe>>

NextExport ==
    \/ \E name \in LogNames, fail \in FailKinds : ExportSingleRun(name, fail)
    \/ \E fl \in [LogNames -> FailKinds] : ExportBatchRun(fl)

SpecExport == InitExport /\ [][NextExport]_vars

----------------------------------------------------------------------------
(* The slicer: acr_analysis_export.  sl holds the three stores it works    *)
(* on (the annotation store grafana_db, the source telemetry_db written by *)
(* the exporter, the destination analysis_db), the backup file and a       *)
(* record of the last run.                                                 *)

\* at most MaxAnnotations annotations are ever created in the annotation store
MaxAnnotations == 2
\* at most MaxSliceRuns runs of the slicer
MaxSliceRuns == 2
\* 1_000_000_000 in the source, scaled to keep epoch milliseconds in 32 bits
EPOCH_REF_SEC == 1000

RecordingIds == {1, 2}
\* format!("rid_{}", recording_id)
RidTag(recording_id) == IF recording_id = 1 THEN "rid_1" ELSE "rid_2"

\* epoch milliseconds, given as milliseconds after the reference
EpochMs(ms) == EPOCH_REF_SEC * 1000 + ms
\* the (epoch, epoch_end) pairs the user marks: a point, two regions
RangeChoices ==
    { <<EpochMs(0), <<>>>>, <<EpochMs(0), <<EpochMs(4)>>>>,
      <<EpochMs(4), <<EpochMs(7)>>>> }

\* acr_analysis_export.rs 153-155
epoch_ms_to_offset(epoch_ms) == Rat(epoch_ms - EPOCH_REF_SEC * 1000, 1000)

EmptyGrafana ==
    [exists |-> TRUE, next_id |-> 1, annotation |-> <<>>, tag |-> <<>>,
     annotation_tag |-> <<>>]

EmptyAnalysis ==
    [exists |-> FALSE, recordings |-> <<>>, statics |-> <<>>, graphics |-> <<>>,
     physics |-> <<>>, annotation |-> <<>>, tag |-> <<>>, annotation_tag |-> <<>>]

\* the telemetry store the slicer reads: two raw logs exported in one batch
SliceLogs ==
    [name \in LogNames |->
        IF name = "a.rkyv"
        THEN [file |-> PhysicsLogFile(SampleRecords(MaxSamples)),
              graphics |-> <<GraphicsLogFile(SampleGraphics)>>,
              statics |-> TRUE, notes |-> <<>>]
        ELSE [file |-> PhysicsLogFile(SampleRecords(2)),
              graphics |-> <<>>, statics |-> FALSE, notes |-> <<>>]]
TelemetryStore ==
    batch_export(EmptyStore, SliceLogs, [name \in LogNames |-> "none"]).store

\* ORDER BY a.epoch, rows of equal epoch in table order
RECURSIVE InsertByEpoch(_, _)
InsertByEpoch(sorted, a) ==
    IF sorted = <<>> THEN <<a>>
    ELSE LET last == sorted[Len(sorted)] IN
         IF last.epoch <= a.epoch THEN Append(sorted, a)
         ELSE Append(InsertByEpoch(SubSeq(sorted, 1, Len(sorted) - 1), a), last)
RECURSIVE SortByEpoch(_)
SortByEpoch(s) ==
    IF s = <<>> THEN <<>>
    ELSE InsertByEpoch(SortByEpoch(SubSeq(s, 1, Len(s) - 1)), s[Len(s)])

RECURSIVE Repeat(_, _)
Repeat(x, n) == IF n = 0 THEN <<>> ELSE <<x>> \o Repeat(x, n - 1)

\* the rows of annotation JOIN annotation_tag JOIN tag WHERE tag.key = key
RECURSIVE JoinFrom(_, _, _)
JoinFrom(g, key, i) ==
    IF i > Len(g.annotation) THEN <<>>
    ELSE LET a == g.annotation[i]
             links == {j \in DOMAIN g.annotation_tag :
                          /\ g.annotation_tag[j].annotation_id = a.id
                          /\ \E k \in DOMAIN g.tag :
                                /\ g.tag[k].id = g.annotation_tag[j].tag_id
                                /\ g.tag[k].key = key}
         IN  Repeat(a, Cardinality(links)) \o JoinFrom(g, key, i + 1)

\* acr_analysis_export.rs 159-182
read_grafana_annotations(g, recording_id) ==
    LET rows == SortByEpoch(JoinFrom(g, RidTag(recording_id), 1)) IN
    [i \in 1..Len(rows) |->
        [id |-> rows[i].id,
         start |-> epoch_ms_to_offset(rows[i].epoch),
         end |-> epoch_ms_to_offset(IF rows[i].epoch_end = <<>> THEN rows[i].epoch
                                    ELSE rows[i].epoch_end[1])]]

\* the seven DELETE statements of a run, in the order they are executed
DeleteStatementPhysicsOnly(db, recording_id, j) ==
    IF j = 1 THEN [db EXCEPT !.physics =
                      SelectSeq(db.physics, LAMBDA r : r.recording_id # recording_id)]
    ELSE db
DeleteStatementKeepsMirror(db, recording_id, j) ==
    CASE j = 1 -> [db EXCEPT !.physics = SelectSeq(db.physics, LAMBDA r : r.recording_id # recording_id)]
      [] j = 2 -> [db EXCEPT !.graphics = SelectSeq(db.graphics, LAMBDA r : r.recording_id # recording_id)]
      [] j = 3 -> [db EXCEPT !.statics = SelectSeq(db.statics, LAMBDA r : r.recording_id # recording_id)]
      [] j = 4 -> [db EXCEPT !.recordings = SelectSeq(db.recordings, LAMBDA r : r.id # recording_id)]
      [] OTHER -> db
DeleteStatement(db, recording_id, j) ==
    CASE j = 1 -> [db EXCEPT !.physics =
                      SelectSeq(db.physics, LAMBDA r : r.recording_id # recording_id)]
      [] j = 2 -> [db EXCEPT !.graphics =
                      SelectSeq(db.graphics, LAMBDA r : r.recording_id # recording_id)]
      [] j = 3 -> [db EXCEPT !.statics =
                      SelectSeq(db.statics, LAMBDA r : r.recording_id # recording_id)]
      [] j = 4 -> [db EXCEPT !.recordings =
                      SelectSeq(db.recordings, LAMBDA r : r.id # recording_id)]
      [] j = 5 -> [db EXCEPT !.annotation_tag = <<>>]
      [] j = 6 -> [db EXCEPT !.annotation = <<>>]
      [] j = 7 -> [db EXCEPT !.tag = <<>>]
DeleteNothing(db, recording_id, n) == db
RECURSIVE DeleteUpTo(_, _, _)
DeleteUpTo(db, recording_id, n) ==
    IF n = 0 THEN db
    ELSE DeleteStatement(DeleteUpTo(db, recording_id, n - 1), recording_id, n)

\* the failures a run can meet: none, fs::copy of the backup, a statement
\* of the transaction, the k-th DELETE of the no-annotation path
SliceFails ==
    {[at |-> "none", k |-> 0], [at |-> "copy", k |-> 0], [at |-> "tx", k |-> 0]}
        \cup {[at |-> "delete", k |-> k] : k \in 1..7}

\* WHERE time_offset >= start AND time_offset <= end
InRangeStartOnly(t, start, end) == RatLe(start, t)
InRange(t, start, end) == RatLe(start, t) /\ RatLe(t, end)

\* the physics and graphics rows inserted for the ranges from position i on
\* slices that take a source row for the first range holding it only
RECURSIVE PhysicsSlicesOnce(_, _, _, _)
PhysicsSlicesOnce(src, recording_id, ranges, i) ==
    IF i > Len(ranges) THEN <<>>
    ELSE LET sel == SelectSeq(src.physics, LAMBDA p :
                        /\ p.recording_id = recording_id
                        /\ InRange(p.time_offset, ranges[i].start, ranges[i].end)
                        /\ \A j \in 1..(i - 1) : ~InRange(p.time_offset, ranges[j].start, ranges[j].end))
         IN  [k \in 1..Len(sel) |-> [recording_id |-> sel[k].recording_id, time_offset |-> sel[k].time_offset, packet_id |-> sel[k].packet_id, annotation_id |-> ranges[i].id]]
             \o PhysicsSlicesOnce(src, recording_id, ranges, i + 1)
RECURSIVE PhysicsSlices(_, _, _, _)
PhysicsSlices(src, recording_id, ranges, i) ==
    IF i > Len(ranges) THEN <<>>
    ELSE LET sel == SelectSeq(src.physics, LAMBDA p :
                        /\ p.recording_id = recording_id
                        /\ InRange(p.time_offset, ranges[i].start, ranges[i].end))
         IN  [k \in 1..Len(sel) |->
                 [recording_id |-> sel[k].recording_id,
                  time_offset |-> sel[k].time_offset,
                  packet_id |-> sel[k].packet_id,
                  annotation_id |-> ranges[i].id]]
             \o PhysicsSlices(src, recording_id, ranges, i + 1)
RECURSIVE GraphicsSlices(_, _, _, _)
GraphicsSlices(src, recording_id, ranges, i) ==
    IF i > Len(ranges) THEN <<>>
    ELSE SelectSeq(src.graphics, LAMBDA p :
             /\ p.recording_id = recording_id
             /\ InRange(p.time_offset, ranges[i].start, ranges[i].end))
         \o GraphicsSlices(src, recording_id, ranges, i + 1)

RECURSIVE SortedIds(_)
SortedIds(ids) ==
    IF ids = {} THEN <<>>
    ELSE LET m == CHOOSE x \in ids : \A y \in ids : x <= y
         IN  <<m>> \o SortedIds(ids \ {m})

\* a mirror copy that leaves the tag rows behind
CopyAnnotationsNoTags(db, g, ann_ids) ==
    [db EXCEPT !.annotation = db.annotation \o SelectSeq(g.annotation, LAMBDA r : r.id \in ann_ids),
               !.annotation_tag = db.annotation_tag \o SelectSeq(g.annotation_tag, LAMBDA r : r.annotation_id \in ann_ids)]
\* acr_analysis_export.rs 249-272: the tag, annotation and annotation_tag
\* rows copied from the annotation store for the selected annotations
CopyAnnotations(db, g, ann_ids) ==
    LET tag_ids == SortedIds({g.annotation_tag[j].tag_id :
                      j \in {j \in DOMAIN g.annotation_tag :
                                g.annotation_tag[j].annotation_id \in ann_ids}})
        TagRows(n) == SelectSeq(g.tag, LAMBDA r : r.id = tag_ids[n])
        RECURSIVE Tags(_)
        Tags(n) == IF n > Len(tag_ids) THEN <<>> ELSE TagRows(n) \o Tags(n + 1)
    IN  [db EXCEPT
            !.tag = db.tag \o Tags(1),
            !.annotation = db.annotation
                \o SelectSeq(g.annotation, LAMBDA r : r.id \in ann_ids),
            !.annotation_tag = db.annotation_tag
                \o SelectSeq(g.annotation_tag, LAMBDA r : r.annotation_id \in ann_ids)]

\* acr_analysis_export.rs 275-303: recordings and statics rows of the
\* recording, then the graphics and physics slices
CopyRecording(db, src, recording_id, ranges) ==
    [db EXCEPT
        !.recordings = db.recordings
            \o SelectSeq(src.recordings, LAMBDA r : r.id = recording_id),
        !.statics = db.statics
            \o SelectSeq(src.statics, LAMBDA r : r.recording_id = recording_id),
        !.graphics = db.graphics \o GraphicsSlices(src, recording_id, ranges, 1),
        !.physics = db.physics \o PhysicsSlices(src, recording_id, ranges, 1)]

\* dropping the Transaction without commit: the rows are those before BEGIN
\* (written is what the statements before the failure had made of them)
TxAbortKeepsWrites(before_tx, written) == written
TxAbort(before_tx, written) == before_tx

\* acr_analysis_export.rs 184-319
run_export(s, recording_id, fail) ==
    LET same == [analysis |-> s.analysis, backup |-> s.backup]
        ranges == read_grafana_annotations(s.grafana, recording_id)
        ann_ids == {ranges[i].id : i \in DOMAIN ranges}
        opened == [s.analysis EXCEPT !.exists = TRUE]
    IN  IF ~s.grafana.exists THEN same @@ [result |-> "err_no_grafana"]
        ELSE IF ~s.telemetry_exists THEN same @@ [result |-> "err_no_telemetry"]
        ELSE IF ranges = <<>>
        THEN IF ~s.analysis.exists THEN same @@ [result |-> "ok_cleared"]
             ELSE IF fail.at = "delete"
             THEN [analysis |-> DeleteUpTo(opened, recording_id, fail.k - 1),
                   backup |-> s.backup, result |-> "err_delete"]
             ELSE [analysis |-> DeleteUpTo(opened, recording_id, 7),
                   backup |-> s.backup, result |-> "ok_cleared"]
        ELSE IF s.analysis.exists /\ fail.at = "copy"
        THEN same @@ [result |-> "err_copy"]
        ELSE LET backup == IF s.analysis.exists THEN <<s.analysis>> ELSE s.backup IN
             IF fail.at = "tx"
             THEN [analysis |-> TxAbort(opened, DeleteUpTo(opened, recording_id, 7)),
                   backup |-> backup, result |-> "err_tx"]
             ELSE [analysis |->
                       CopyRecording(
                           CopyAnnotations(DeleteUpTo(opened, recording_id, 7),
                                           s.grafana, ann_ids),
                           s.telemetry, recording_id, ranges),
                   backup |-> backup, result |-> "ok"]

\* how many rows a store holds for one recording, table by table
RowCounts(db, recording_id) ==
    [physics |-> Len(SelectSeq(db.physics, LAMBDA r : r.recording_id = recording_id)),
     graphics |-> Len(SelectSeq(db.graphics, LAMBDA r : r.recording_id = recording_id)),
     statics |-> Len(SelectSeq(db.statics, LAMBDA r : r.recording_id = recording_id)),
     recordings |-> Len(SelectSeq(db.recordings, LAMBDA r : r.id = recording_id))]

\* the last run: its argument, its outcome, the ranges it read and the row
\* counts of the destination for that recording before it ran
\* the failures that can happen on the path a run takes
FailsOnPath(s, recording_id) ==
    IF ~s.grafana.exists \/ ~s.telemetry_exists THEN {[at |-> "none", k |-> 0]}
    ELSE IF read_grafana_annotations(s.grafana, recording_id) = <<>>
    THEN IF s.analysis.exists
         THEN {f \in SliceFails : f.at \in {"none", "delete"}}
         ELSE {[at |-> "none", k |-> 0]}
    ELSE IF s.analysis.exists
         THEN {f \in SliceFails : f.at \in {"none", "copy", "tx"}}
         ELSE {f \in SliceFails : f.at \in {"none", "tx"}}

NoSliceRun ==
    [count |-> 0, recording_id |-> 0, result |-> "none", ranges |-> <<>>,
     before |-> RowCounts(EmptyAnalysis, 0)]

InitSlice ==
    /\ CapIdle
    /\ ExpIdle
    /\ ProbeIdle
    /\ \E grafana_exists \in BOOLEAN, telemetry_exists \in BOOLEAN :
          sl = [grafana |-> [EmptyGrafana EXCEPT !.exists = grafana_exists],
                telemetry |-> TelemetryStore, telemetry_exists |-> telemetry_exists,
                analysis |-> EmptyAnalysis, backup |-> <<>>, last |-> NoSliceRun]

\* acr_analysis_export <recording_id>, or GET /export?recording_id=
SliceRun(recording_id, fail) ==
    /\ sl.last.count < MaxSliceRuns
    /\ fail \in FailsOnPath(sl, recording_id)
    /\ LET r == run_export(sl, recording_id, fail) IN
       sl' = [sl EXCEPT
                 !.analysis = r.analysis,
                 !.backup = r.backup,
                 !.last = [count |-> sl.last.count + 1,
                           recording_id |-> recording_id,
                           result |-> r.result,
                           ranges |-> read_grafana_annotations(sl.grafana, recording_id),
                           before |-> RowCounts(sl.analysis, recording_id)]]
    /\ UNCHANGED <<capVars, expVars, probe>>

\* the user marks a time range in the dashboard and tags it for a recording
GrafanaAnnotate(epoch, epoch_end, recording_id) ==
    /\ sl.grafana.exists
    /\ sl.grafana.next_id <= MaxAnnotations
    /\ LET g == sl.grafana
           key == RidTag(recording_id)
           known == {k \in DOMAIN g.tag : g.tag[k].key = key}
           tag_id == IF known = {} THEN Len(g.tag) + 1
                     ELSE g.tag[CHOOSE k \in known : TRUE].id
       IN  sl' = [sl EXCEPT !.grafana =
                    [g EXCEPT
                        !.next_id = g.next_id + 1,
                        !.annotation = Append(g.annotation,
                            [id |-> g.next_id, epoch |-> epoch, epoch_end |-> epoch_end]),
                        !.tag = IF known = {} THEN Append(g.tag, [id |-> tag_id, key |-> key])
                                ELSE g.tag,
                        !.annotation_tag = Append(g.annotation_tag,
                            [id |-> g.next_id, annotation_id |-> g.next_id,
                             tag_id |-> tag_id])]]
    /\ UNCHANGED <<capVars, expVars, probe>>

\* the user deletes an annotation in the dashboard
GrafanaRemove(id) ==
    /\ \E i \in DOMAIN sl.grafana.annotation : sl.grafana.annotation[i].id = id
    /\ sl' = [sl EXCEPT
                 !.grafana.annotation = SelectSeq(@, LAMBDA r : r.id # id),
                 !.grafana.annotation_tag = SelectSeq(@, LAMBDA r : r.annotation_id # id)]
    /\ UNCHANGED <<capVars, expVars, probe>>

NextSlice ==
    \/ \E recording_id \in RecordingIds, fail \in SliceFails :
          SliceRun(recording_id, fail)
    \/ \E range \in RangeChoices, recording_id \in RecordingIds :
          GrafanaAnnotate(range[1], range[2], recording_id)
    \/ \E id \in 1..MaxAnnotations : GrafanaRemove(id)

SpecSlice == InitSlice /\ [][NextSlice]_vars

\* Slicer runs on an annotation store that does not change: one or two
\* annotations, each tagged for recording 1, for recording 2 or for both.
TagChoices == {{1}, {2}, {1, 2}}
\* the annotation store with annotation 1 marked at range r1 with the tags of
\* the recordings in t1, and, when second is set, annotation 2 likewise
TaggedGrafana(r1, t1, second, r2, t2) ==
    LET tagRows(id, t) == [k \in 1..Cardinality(t) |->
                              [id |-> 2 * id + k - 2, annotation_id |-> id, tag_id |-> SortedIds(t)[k]]]
    IN  [exists |-> TRUE, next_id |-> IF second THEN 3 ELSE 2,
         annotation |-> <<[id |-> 1, epoch |-> r1[1], epoch_end |-> r1[2]]>>
                        \o (IF second THEN <<[id |-> 2, epoch |-> r2[1], epoch_end |-> r2[2]]>> ELSE <<>>),
         tag |-> <<[id |-> 1, key |-> RidTag(1)], [id |-> 2, key |-> RidTag(2)]>>,
         annotation_tag |-> tagRows(1, t1) \o (IF second THEN tagRows(2, t2) ELSE <<>>)]

InitSliceTags ==
    /\ CapIdle /\ ExpIdle /\ ProbeIdle
    /\ \E r1 \in RangeChoices, t1 \in TagChoices, second \in BOOLEAN, r2 \in RangeChoices, t2 \in TagChoices :
          /\ ~second => r2 = r1 /\ t2 = t1
          /\ sl = [grafana |-> TaggedGrafana(r1, t1, second, r2, t2),
                   telemetry |-> TelemetryStore, telemetry_exists |-> TRUE,
                   analysis |-> EmptyAnalysis, backup |-> <<>>, last |-> NoSliceRun]

NextSliceTags == \E recording_id \in RecordingIds, fail \in SliceFails : SliceRun(recording_id, fail)

SpecSliceTags == InitSliceTags /\ [][NextSliceTags]_vars

----------------------------------------------------------------------------
(* The shared-memory reader: SharedMemoryReader of core/shared_memory.rs,  *)
(* applied to one mapping.  Addresses are byte offsets from the start of   *)
(* the mapping; usize is kept narrow so that its overflow is reachable.    *)

\* the mapping's size in bytes (800, 1588, 784 in the source, scaled)
SegSize == 4
\* the number of values of usize (2^64 in the source, scaled)
USIZE_RANGE == 16

SegBytes == {0, 65, 216}
Segments == [1..SegSize -> SegBytes]
ValueSizes == {1, 2, 4}
Mapped == 0..(SegSize - 1)

\* the outcome of a read: what it returned and the addresses it read
ReadErr == [kind |-> "err", touched |-> {}, value |-> <<>>]
ReadPanic == [kind |-> "panic", touched |-> {}, value |-> <<>>]
\* a read of addresses outside the mapping: undefined behaviour
ReadOutside(addresses) == [kind |-> "ub", touched |-> addresses, value |-> <<>>]

\* ptr.add(offset) read for len bytes
ReadBytes(seg, offset, len) ==
    LET addresses == {offset + i : i \in 0..(len - 1)} IN
    IF addresses \subseteq Mapped
    THEN [kind |-> "ok", touched |-> addresses,
          value |-> [i \in 1..len |-> seg[offset + i]]]
    ELSE ReadOutside(addresses)

\* offset + size > self.size, the sum computed in usize: with overflow
\* checks the addition panics, without them it wraps
BoundsCheck(seg, offset, total_size, overflow_checks) ==
    IF offset + total_size >= USIZE_RANGE /\ overflow_checks THEN ReadPanic
    ELSE IF (offset + total_size) % USIZE_RANGE > SegSize THEN ReadErr
    ELSE ReadBytes(seg, offset, total_size)

\* shared_memory.rs 103-117
read_at(seg, offset, size_of_T, overflow_checks) ==
    BoundsCheck(seg, offset, size_of_T, overflow_checks)

\* shared_memory.rs 120-137
read_array_at(seg, offset, count, size_of_T, overflow_checks) ==
    IF count * size_of_T >= USIZE_RANGE /\ overflow_checks THEN ReadPanic
    ELSE LET total_size == (count * size_of_T) % USIZE_RANGE
             checked == BoundsCheck(seg, offset, total_size, overflow_checks)
         IN  IF checked.kind \in {"err", "panic"} THEN checked
             ELSE ReadBytes(seg, offset, count * size_of_T)

\* String::from_utf16: a high surrogate must be followed by a low one, a
\* low surrogate cannot stand alone; the result is the sequence of chars
HighSurrogate(c) == c >= 55296 /\ c <= 56319
LowSurrogate(c) == c >= 56320 /\ c <= 57343
RECURSIVE from_utf16(_)
from_utf16(cells) ==
    IF cells = <<>> THEN [ok |-> TRUE, chars |-> <<>>]
    ELSE IF LowSurrogate(cells[1]) THEN [ok |-> FALSE, chars |-> <<>>]
    ELSE IF HighSurrogate(cells[1])
    THEN IF Len(cells) >= 2 /\ LowSurrogate(cells[2])
         THEN LET rest == from_utf16(SubSeq(cells, 3, Len(cells))) IN
              [ok |-> rest.ok,
               chars |-> IF rest.ok THEN <<<<cells[1], cells[2]>>>> \o rest.chars
                         ELSE <<>>]
         ELSE [ok |-> FALSE, chars |-> <<>>]
    ELSE LET rest == from_utf16(Tail(cells)) IN
         [ok |-> rest.ok,
          chars |-> IF rest.ok THEN <<<<cells[1]>>>> \o rest.chars ELSE <<>>]

Max(a, b) == IF a >= b THEN a ELSE b
\* usize::min
Min(a, b) == IF a <= b THEN a ELSE b

\* the cells before the first null cell
RECURSIVE UpToNull(_)
UpToNull(cells) ==
    IF cells = <<>> \/ cells[1] = 0 THEN <<>>
    ELSE <<cells[1]>> \o UpToNull(Tail(cells))

\* shared_memory.rs 140-165
read_utf16_string_at(seg, offset, max_char_count) ==
    LET max_bytes == IF offset >= SegSize THEN 0 ELSE SegSize - offset
        max_chars_in_buffer == max_bytes \div 2
        read_count == Min(max_char_count, max_chars_in_buffer)
        raw == ReadBytes(seg, offset, 2 * read_count)
        slice == [i \in 1..read_count |->
                     from_le_bytes(SubSeq(raw.value, 2 * i - 1, 2 * i))]
        s == from_utf16(UpToNull(slice))
    IN  IF max_chars_in_buffer = 0 THEN ReadErr
        ELSE IF raw.kind # "ok" THEN raw
        ELSE IF ~s.ok THEN [kind |-> "err", touched |-> raw.touched, value |-> <<>>]
        ELSE [kind |-> "ok", touched |-> raw.touched, value |-> s.chars]

NoCall == [fn |-> "none", offset |-> 0, count |-> 0, size |-> 0, out |-> ReadErr]

InitReader ==
    /\ CapIdle /\ ExpIdle /\ SlIdle
    /\ \E seg \in Segments : probe = [seg |-> seg, call |-> NoCall]

\* one call on the mapping
Called(fn, offset, count, size, out) ==
    /\ probe.call.fn = "none"
    /\ probe' = [probe EXCEPT !.call =
                    [fn |-> fn, offset |-> offset, count |-> count, size |-> size,
                     out |-> out]]
    /\ UNCHANGED <<capVars, expVars, sl>>

ReadAt(offset, size_of_T, overflow_checks) ==
    Called("read_at", offset, 1, size_of_T,
           read_at(probe.seg, offset, size_of_T, overflow_checks))

ReadArrayAt(offset, count, size_of_T, overflow_checks) ==
    Called("read_array_at", offset, count, size_of_T,
           read_array_at(probe.seg, offset, count, size_of_T, overflow_checks))

ReadUtf16StringAt(offset, max_char_count) ==
    Called("read_utf16_string_at", offset, max_char_count, 2,
           read_utf16_string_at(probe.seg, offset, max_char_count))

NextReader ==
    \/ \E offset \in 0..(USIZE_RANGE - 1), size_of_T \in ValueSizes,
          overflow_checks \in BOOLEAN :
          ReadAt(offset, size_of_T, overflow_checks)
    \/ \E offset \in 0..(USIZE_RANGE - 1), count \in 0..3, size_of_T \in ValueSizes,
          overflow_checks \in BOOLEAN :
          ReadArrayAt(offset, count, size_of_T, overflow_checks)
    \/ \E offset \in 0..(USIZE_RANGE - 1), max_char_count \in 0..3 :
          ReadUtf16StringAt(offset, max_char_count)

SpecReader == InitReader /\ [][NextReader]_vars

----------------------------------------------------------------------------
(* The graphics parser on its own: one decode of one segment.              *)

\* integers around the ends of each enum's range
GraphicsSegments == [packet_id : {0}, status : {-1, 3, 4}, session_type : {-2, -1, 9}, flag : {-1, 8, 9}, penalty : {-2, -1, 22, 23}, track_grip_status : {-1, 6, 7}, rain_intensity : {-1, 5, 6}, rain_intensity_in_10min : {0, 6}, rain_intensity_in_30min : {0, 6}]

InitParser ==
    /\ CapIdle /\ ExpIdle /\ SlIdle
    /\ \E seg \in GraphicsSegments : probe = [seg |-> seg, call |-> NoCall]

ParseGraphics ==
    /\ probe.call.fn = "none"
    /\ probe' = [probe EXCEPT !.call = [fn |-> "parse_graphics_map", out |-> parse_graphics_map(probe.seg)]]
    /\ UNCHANGED <<capVars, expVars, sl>>

NextParser == ParseGraphics

SpecParser == InitParser /\ [][NextParser]_vars

----------------------------------------------------------------------------
(* Notes: parse_annotation_line and the body of save_notes_to_json.  A     *)
(* line is a sequence of tokens; " " is the one whitespace token, and       *)
(* "#", "]", "s" stand for themselves.                                      *)

MARKER_PATTERN == <<"#", "marker", " ">>
ELAPSED_PATTERN == <<"[elapsed", " ">>
\* the number tokens and the f64 each one parses to
NumberTokens == {"12.5", "3"}
NumberValue(tok) == IF tok = "12.5" THEN Rat(25, 2) ELSE Rat(3, 1)

RECURSIVE trim_start(_)
trim_start(l) == IF l # <<>> /\ Head(l) = " " THEN trim_start(Tail(l)) ELSE l
RECURSIVE trim_end(_)
trim_end(l) == IF l # <<>> /\ l[Len(l)] = " " THEN trim_end(SubSeq(l, 1, Len(l) - 1)) ELSE l
trim(l) == trim_start(trim_end(l))
RECURSIVE trim_end_matches_s(_)
trim_end_matches_s(l) == IF l # <<>> /\ l[Len(l)] = "s" THEN trim_end_matches_s(SubSeq(l, 1, Len(l) - 1)) ELSE l

\* str::find: the first position where pat starts in l, 0 when there is none
MatchesAt(l, pat, i) == i + Len(pat) - 1 <= Len(l) /\ SubSeq(l, i, i + Len(pat) - 1) = pat
find(l, pat) == IF \E i \in 1..Len(l) : MatchesAt(l, pat, i) THEN CHOOSE i \in 1..Len(l) : MatchesAt(l, pat, i) /\ \A j \in 1..(i - 1) : ~MatchesAt(l, pat, j) ELSE 0
contains(l, pat) == find(l, pat) # 0
\* rest[..end] with end = rest.find(c).unwrap_or(rest.len())
UpTo(rest, c) == IF find(rest, <<c>>) = 0 THEN rest ELSE SubSeq(rest, 1, find(rest, <<c>>) - 1)
\* str::parse::<f64> on the tokens left
parse_f64(num_str) == IF Len(num_str) = 1 /\ num_str[1] \in NumberTokens THEN [ok |-> TRUE, v |-> NumberValue(num_str[1])] ELSE [ok |-> FALSE, v |-> Rat(0, 1)]

ElapsedOf(line) ==
    IF find(line, ELAPSED_PATTERN) = 0 THEN Rat(0, 1)
    ELSE LET rest == SubSeq(line, find(line, ELAPSED_PATTERN) + Len(ELAPSED_PATTERN), Len(line))
             num_str == trim(trim_end_matches_s(trim(UpTo(rest, "]"))))
         IN  IF parse_f64(num_str).ok THEN parse_f64(num_str).v ELSE Rat(0, 1)

TagOf(line) ==
    IF find(line, MARKER_PATTERN) = 0 THEN <<"marker">>
    ELSE LET rest == SubSeq(line, find(line, MARKER_PATTERN) + Len(MARKER_PATTERN), Len(line))
             tag == trim(UpTo(rest, "#"))
         IN  IF tag = <<>> THEN <<"marker">> ELSE tag

NoAnnotation == [some |-> FALSE, time_offset_sec |-> Rat(0, 1), tag |-> <<>>, text |-> <<>>]
parse_annotation_line(raw) == LET line == trim(raw) IN IF line = <<>> \/ ~contains(line, MARKER_PATTERN) THEN NoAnnotation ELSE [some |-> TRUE, time_offset_sec |-> ElapsedOf(line), tag |-> TagOf(line), text |-> TagOf(line)]

\* read_file_trim: the file's text with trailing whitespace (blank last
\* lines included) removed; an empty text has no lines
RECURSIVE read_file_trim(_)
read_file_trim(file) == IF file = <<>> THEN <<>> ELSE IF trim_end(file[Len(file)]) = <<>> THEN read_file_trim(SubSeq(file, 1, Len(file) - 1)) ELSE SubSeq(file, 1, Len(file) - 1) \o <<trim_end(file[Len(file)])>>

\* the loop over notes_body.lines()
RECURSIVE AnnotationsOf(_)
AnnotationsOf(lines) ==
    IF lines = <<>> THEN <<>>
    ELSE LET a == parse_annotation_line(Head(lines))
         IN  (IF a.some THEN <<[time_offset_sec |-> a.time_offset_sec, time_end_sec |-> "None", text |-> a.text, tag |-> a.tag]>> ELSE <<>>) \o AnnotationsOf(Tail(lines))

\* the notes and annotations members of the payload
NotesPayload(file) == [notes |-> read_file_trim(file), annotations |-> AnnotationsOf(read_file_trim(file))]

\* lines put together from an elapsed bracket, a marker and padding
Brackets == {<<>>, <<"[elapsed", " ", "12.5", "s", "]">>, <<"[elapsed", " ", "3", " ", "s", "]">>, <<"[elapsed", " ", "3", "]">>, <<"[elapsed", " ", "x", "s", "]">>, <<"[elapsed", " ", "3", "s">>}
Markers == {<<>>, <<"#", "marker", " ", "good", "#">>, <<"#", "marker", " ">>, <<"#", "marker", " ", " ", "good", " ", "#", "bad">>, <<"#", "marker">>, <<"#", "marker", " ", "#">>, <<"#", "marker", " ", "good">>}
Pads == {<<>>, <<" ">>}
Tails == {<<>>, <<" ">>, <<"lockup">>}
NoteLines == {a \o x \o b \o y \o t : a \in Pads, x \in Brackets \cup Markers, b \in Pads, y \in Brackets \cup Markers, t \in Tails}
NoteFiles == {<<l>> : l \in NoteLines} \cup {<<l, <<"lockup">>>> : l \in NoteLines}

InitNotes ==
    /\ CapIdle /\ ExpIdle /\ SlIdle
    /\ \E file \in NoteFiles : probe = [seg |-> file, call |-> NoCall]

SaveNotes ==
    /\ probe.call.fn = "none"
    /\ probe' = [probe EXCEPT !.call = [fn |-> "save_notes_to_json", out |-> NotesPayload(probe.seg)]]
    /\ UNCHANGED <<capVars, expVars, sl>>

NextNotes == SaveNotes

SpecNotes == InitNotes /\ [][NextNotes]_vars

----------------------------------------------------------------------------
(* Sync annotations on their own: one synthesis over one physics sequence. *)

\* physics sequences of at most MaxSyncLen records
MaxSyncLen == 4
\* readings on both sides of the two thresholds
AirTemps == {0, 1}
Speeds == {3, 4}
SyncRecords == UNION {[1..n -> [packet_id : {0}, air_temp : AirTemps, speed_kmh : Speeds]] : n \in 0..MaxSyncLen}

InitSync ==
    /\ CapIdle /\ ExpIdle /\ SlIdle
    /\ \E records \in SyncRecords : probe = [seg |-> records, call |-> NoCall]

\* acr_export.rs 292-293: dt_sec = 1.0 / sample_rate
SyncAnnotations ==
    /\ probe.call.fn = "none"
    /\ probe' = [probe EXCEPT !.call = [fn |-> "sync_annotations_from_physics", out |-> sync_annotations_from_physics(probe.seg, Rat(1, TARGET_HZ))]]
    /\ UNCHANGED <<capVars, expVars, sl>>

NextSync == SyncAnnotations

SpecSync == InitSync /\ [][NextSync]_vars

----------------------------------------------------------------------------
(* The logger-format writer: write_ld, one step per block written.  probe  *)
(* holds the call's input, its position and what the file holds so far.   *)

\* logs of at most MaxLdRecords physics records
MaxLdRecords == 36
\* the number of values of a u32 (2^32 in the source, scaled)
LD_U32_RANGE == 8192
\* motec_ld.rs 82-85
event_ptr == 0
head_size == 1762
event_size == 1154
chan_head_size == 124
\* channels.len(): the 25 entries of the channel table
NumChannels == 25
F32_BYTES == 4

\* u32 arithmetic: with overflow checks an overflow panics, without it wraps
U32(v, overflow_checks) == [panic |-> overflow_checks /\ v >= LD_U32_RANGE, v |-> v % LD_U32_RANGE]
meta_ptr == head_size + (IF event_ptr > 0 THEN event_size ELSE 0)
data_ptr == meta_ptr + NumChannels * chan_head_size

\* the loop over channels that fills data_offsets: k channels done so far
RECURSIVE DataOffsets(_, _, _, _)
DataOffsets(k, offset, n, overflow_checks) ==
    IF k = NumChannels THEN [panic |-> FALSE, offsets |-> <<>>]
    ELSE LET size == U32(n * F32_BYTES, overflow_checks)
             sum == U32(offset + size.v, overflow_checks)
             rest == DataOffsets(k + 1, sum.v, n, overflow_checks)
         IN  IF size.panic \/ sum.panic \/ rest.panic THEN [panic |-> TRUE, offsets |-> <<>>]
             ELSE [panic |-> FALSE, offsets |-> <<offset>> \o rest.offsets]

\* the prev and next pointers of descriptor i (0-based)
ChanPrev(i) == IF i = 0 THEN 0 ELSE meta_ptr + (i - 1) * chan_head_size
ChanNext(i) == IF i + 1 < NumChannels THEN meta_ptr + (i + 1) * chan_head_size ELSE 0

LdStart(n, overflow_checks) == [n |-> n, overflow_checks |-> overflow_checks, pc |-> "create", i |-> 0, pos |-> 0, data_offsets |-> <<>>, head |-> <<>>, chans |-> <<>>, data |-> <<>>]

InitLd ==
    /\ CapIdle /\ ExpIdle /\ SlIdle
    /\ \E n \in 0..MaxLdRecords, overflow_checks \in BOOLEAN : probe = LdStart(n, overflow_checks)

LdStep(next) ==
    /\ probe' = next
    /\ UNCHANGED <<capVars, expVars, sl>>

\* motec_ld.rs 19-97: File::create, the channel vectors, the data offsets
LdLayout(io_fail) ==
    /\ probe.pc = "create"
    /\ LET d == DataOffsets(0, data_ptr, probe.n, probe.overflow_checks) IN
       LdStep(IF io_fail THEN [probe EXCEPT !.pc = "err"]
              ELSE IF d.panic THEN [probe EXCEPT !.pc = "panic"]
              ELSE [probe EXCEPT !.pc = "head", !.data_offsets = d.offsets])

\* motec_ld.rs 100-104: write_ld_head, then the seek to the meta region
LdHead(io_fail) ==
    /\ probe.pc = "head"
    /\ LdStep(IF io_fail THEN [probe EXCEPT !.pc = "err"]
              ELSE [probe EXCEPT !.pc = "chan", !.i = 0, !.pos = meta_ptr,
                                 !.head = <<[meta_ptr |-> meta_ptr, data_ptr |-> data_ptr, event_ptr |-> event_ptr, n_chans |-> NumChannels, bytes |-> head_size]>>])

\* motec_ld.rs 105-113: one write_ld_chan
LdChan(io_fail) ==
    /\ probe.pc = "chan"
    /\ LET i == probe.i
           chan == [at |-> probe.pos, prev |-> ChanPrev(i), next |-> ChanNext(i), data_ptr |-> probe.data_offsets[i + 1], n_data |-> probe.n % LD_U32_RANGE]
       IN  LdStep(IF io_fail THEN [probe EXCEPT !.pc = "err"]
                  ELSE [probe EXCEPT !.chans = Append(probe.chans, chan),
                                     !.pos = probe.pos + chan_head_size,
                                     !.i = IF i + 1 < NumChannels THEN i + 1 ELSE 0,
                                     !.pc = IF i + 1 < NumChannels THEN "chan" ELSE "data"])

\* motec_ld.rs 116-120: the values of one channel
LdData(io_fail) ==
    /\ probe.pc = "data"
    /\ LET i == probe.i
           region == [at |-> probe.pos, bytes |-> probe.n * F32_BYTES]
       IN  LdStep(IF io_fail /\ probe.n > 0 THEN [probe EXCEPT !.pc = "err"]
                  ELSE [probe EXCEPT !.data = Append(probe.data, region),
                                     !.pos = probe.pos + region.bytes,
                                     !.i = IF i + 1 < NumChannels THEN i + 1 ELSE 0,
                                     !.pc = IF i + 1 < NumChannels THEN "data" ELSE "done"])

NextLd ==
    \/ \E io_fail \in BOOLEAN : LdLayout(io_fail)
    \/ \E io_fail \in BOOLEAN : LdHead(io_fail)
    \/ \E io_fail \in BOOLEAN : LdChan(io_fail)
    \/ \E io_fail \in BOOLEAN : LdData(io_fail)

SpecLd == InitLd /\ [][NextLd]_vars

----------------------------------------------------------------------------
(* The freshness gate on its own: one read_shared_memory.                   *)

\* the gate as new() leaves it, or holding the frame of an earlier hit
GateStates == {ACCSharedMemory_new} \cup {GateStore(ACCSharedMemory_new, p) : p \in PhysicsContents}

InitGate ==
    /\ CapIdle /\ ExpIdle /\ SlIdle
    /\ \E a \in GateStates, p \in PhysicsContents, g \in GraphicsContents :
          probe = [seg |-> [acc |-> a, physics |-> p, graphics |-> g], call |-> NoCall]

ReadSharedMemory ==
    /\ probe.call.fn = "none"
    /\ probe' = [probe EXCEPT !.call = [fn |-> "read_shared_memory", out |-> read_shared_memory(probe.seg.acc, probe.seg.physics, probe.seg.graphics)]]
    /\ UNCHANGED <<capVars, expVars, sl>>

NextGate == ReadSharedMemory

SpecGate == InitGate /\ [][NextGate]_vars

----------------------------------------------------------------------------
(* wait_for_data on its own: one call, poll by poll.  The clock counts     *)
(* sleeps of the loop; the segments change freely between two polls.       *)

\* const MAX_ATTEMPTS, scaled
MAX_ATTEMPTS == 3
\* the caller's timeout, in clock ticks
Timeouts == {0, 2, 7}
\* what one iteration (poll and sleep) takes, in clock ticks
SleepTicks == {1, 2}

\* the loop condition: start.elapsed() < timeout && attempts < MAX_ATTEMPTS
wait_loop_test(w) == w.elapsed < w.timeout /\ w.attempts < MAX_ATTEMPTS

\* a miss: attempts += 1, then the sleep
wait_miss_uncounted(w, dt) == [w EXCEPT !.elapsed = @ + dt]
wait_miss(w, dt) == [w EXCEPT !.attempts = @ + 1, !.elapsed = @ + dt]

InitWait ==
    /\ CapIdle /\ ExpIdle /\ SlIdle
    /\ \E a \in GateStates, t \in Timeouts :
          probe = [acc |-> a, timeout |-> t, attempts |-> 0, elapsed |-> 0, polls |-> <<>>, returned |-> "no"]

\* one iteration of the loop: read_shared_memory()? and what follows it
WaitPoll(p, g, dt) ==
    /\ probe.returned = "no"
    /\ wait_loop_test(probe)
    /\ LET res == read_shared_memory(probe.acc, p, g)
           polled == [probe EXCEPT !.polls = Append(@, [kind |-> res.kind, fresh |-> IsFresh(probe.acc, p), p |-> p]), !.acc = res.acc]
       IN  probe' = CASE res.kind = "some" -> [polled EXCEPT !.returned = "data"]
                      [] res.kind = "err" -> [polled EXCEPT !.returned = "err"]
                      [] OTHER -> wait_miss(polled, dt)
    /\ UNCHANGED <<capVars, expVars, sl>>

\* the loop condition fails: Err(ACCError::Timeout)
WaitTimeout ==
    /\ probe.returned = "no"
    /\ ~wait_loop_test(probe)
    /\ probe' = [probe EXCEPT !.returned = "timeout"]
    /\ UNCHANGED <<capVars, expVars, sl>>

NextWait ==
    \/ \E p \in PhysicsContents, g \in GraphicsContents, dt \in SleepTicks : WaitPoll(p, g, dt)
    \/ WaitTimeout

SpecWait == InitWait /\ [][NextWait]_vars
\* the thread that called wait_for_data keeps running
SpecWaitLive == SpecWait /\ WF_vars(NextWait)

----------------------------------------------------------------------------
(* The chunk stream on its own: read_rkyv of one file made of whole chunks *)
(* and zero length prefixes, and flush / flush_graphics of one Recorder.   *)

\* at most MaxItems chunks or zero prefixes follow the header of a file
MaxItems == 3
\* an item of a file: a batch of records written as a chunk, or <<>> for a
\* length prefix of zero with nothing behind it
Batches == {<<x>> : x \in ApiPhysicsRecords} \cup {<<x, x>> : x \in ApiPhysicsRecords}
Items == Batches \cup {<<>>}
ItemLists == UNION {[1..k -> Items] : k \in 0..MaxItems}
ItemCells(it) == IF it = <<>> THEN <<Cell("u32", 0, <<>>)>> ELSE Chunk(to_bytes(it))
RECURSIVE ItemsCells(_)
ItemsCells(items) == IF items = <<>> THEN <<>> ELSE ItemCells(Head(items)) \o ItemsCells(Tail(items))

\* Recorders as calls of record and record_graphics leave them
RECURSIVE RecordAll(_, _)
RecordAll(r, xs) == IF xs = <<>> THEN r ELSE RecordAll(record(r, Head(xs)), Tail(xs))
WriterStates ==
    {record_graphics(RecordAll(Recorder_new(<<>>, TRUE), xs), g) :
        xs \in UNION {[1..k -> ApiPhysicsRecords] : k \in 0..BUFFER_FLUSH_SAMPLES}, g \in ApiGraphicsRecords}
    \cup {RecordAll(Recorder_new(<<>>, eg), xs) :
        xs \in UNION {[1..k -> ApiPhysicsRecords] : k \in 0..BUFFER_FLUSH_SAMPLES}, eg \in BOOLEAN}

InitChunks ==
    /\ CapIdle /\ ExpIdle /\ SlIdle
    /\ \/ \E items \in ItemLists :
             probe = [items |-> items, file |-> Header(FILE_MAGIC, TARGET_HZ) \o ItemsCells(items), rec |-> NoRecorder, call |-> NoCall]
       \/ \E r \in WriterStates :
             probe = [items |-> <<>>, file |-> <<>>, rec |-> r, call |-> NoCall]

ReadRkyv ==
    /\ probe.call.fn = "none" /\ probe.file # <<>>
    /\ probe' = [probe EXCEPT !.call = [fn |-> "read_rkyv", out |-> read_rkyv(probe.file)]]
    /\ UNCHANGED <<capVars, expVars, sl>>

Flush ==
    /\ probe.call.fn = "none" /\ probe.rec.state = "open"
    /\ probe' = [probe EXCEPT !.call = [fn |-> "flush", out |-> flush(probe.rec)]]
    /\ UNCHANGED <<capVars, expVars, sl>>

FlushGraphics ==
    /\ probe.call.fn = "none" /\ probe.rec.state = "open"
    /\ probe' = [probe EXCEPT !.call = [fn |-> "flush_graphics", out |-> flush_graphics(probe.rec)]]
    /\ UNCHANGED <<capVars, expVars, sl>>

NextChunks == ReadRkyv \/ Flush \/ FlushGraphics

SpecChunks == InitChunks /\ [][NextChunks]_vars

----------------------------------------------------------------------------
(* Claims.                                                                 *)

\* number of chunks a reader walks through in file f from cell p on
RECURSIVE CountChunks(_, _)
CountChunks(f, p) ==
    IF p > Len(f) \/ f[p].n = 0 \/ p + f[p].n > Len(f) THEN 0
    ELSE 1 + CountChunks(f, p + f[p].n + 1)

\* C1: once the Recorder is dropped, read_rkyv of its file succeeds and
\* returns exactly the records passed to record, in the order they were
\* passed, whatever flush calls were interleaved.
C1_RoundTrip ==
    recorder.state = "dropped" =>
        /\ read_rkyv(recorder.file).ok
        /\ read_rkyv(recorder.file).records = handed

\* C1 witness: a dropped Recorder whose file holds MaxRecords records in more
\* chunks than the threshold alone produces (explicit flushes cut the batches).
C1_Witness ==
    /\ pc = "api"
    /\ recorder.state = "dropped"
    /\ Len(handed) = MaxRecords
    /\ CountChunks(recorder.file, HEADER_BYTES + 1) > MaxRecords \div BUFFER_FLUSH_SAMPLES
    /\ \E i \in 1..(Len(handed) - 1) : handed[i] # handed[i + 1]

\* C2: any two consecutive frames returned by read_shared_memory differ in
\* sequence_id or in the suspension-travel probe.
C2_NoExactDuplicate ==
    \A i \in 1..(Len(emitted) - 1) :
        \/ emitted[i + 1].packet_id # emitted[i].packet_id
        \/ ~is_equal(emitted[i + 1], emitted[i])

\* C2 witness: the gate returned two frames and rejected a poll in between
\* or after (the miss counter is running).
C2_Witness ==
    /\ Len(emitted) >= 2
    /\ consecutive_none > 0

\* the sequence_ids of the returned frames are strictly increasing
EmittedStrictlyIncreasing ==
    \A i \in 1..Len(emitted) : \A j \in 1..Len(emitted) :
        i < j => emitted[j].packet_id > emitted[i].packet_id

\* C3 (as claimed): for any sequence of sequence_ids seen in shared memory,
\* the gate never returns a frame whose sequence_id is lower than or equal
\* to that of a frame it returned earlier.
C3_AlwaysMonotone == EmittedStrictlyIncreasing

\* C3 (amended): when the sequence_ids seen in shared memory never decrease,
\* the gate never returns a frame whose sequence_id is lower than or equal
\* to that of a frame it returned earlier.
C3_MonotoneIfProducerMonotone ==
    observed.nondecreasing => EmittedStrictlyIncreasing

\* C3 witness: a non-decreasing producer, two frames returned, and a poll
\* that saw the same sequence_id again and was rejected.
C3_Witness ==
    /\ observed.nondecreasing
    /\ Len(emitted) >= 2
    /\ consecutive_none > 0
    /\ observed.last = emitted[Len(emitted)].packet_id

\* C4 (as claimed): a decode failure inside the capture loop never ends the
\* process: the loop skips the frame and keeps running.
C4_DecodeFailureIsLocal == exit # "decode_error"

\* C5: when capture stopped through the stop file or the interrupt flag and
\* main returned, the closed physics log holds every record passed to
\* record and the closed graphics log every record passed to
\* record_graphics.
C5_NoLossOnStop ==
    exit = "ok" =>
        /\ read_rkyv(recorder.file).ok
        /\ read_rkyv(recorder.file).records = handed
        /\ recorder.graphics_enabled =>
              /\ read_graphics_rkyv(recorder.graphics_file).ok
              /\ read_graphics_rkyv(recorder.graphics_file).records = handedG

\* C5 witness: a stopped capture with a written physics chunk plus a final
\* physics batch below the threshold, and a final graphics batch below the
\* threshold.
C5_Witness ==
    /\ exit = "ok"
    /\ Len(handed) > BUFFER_FLUSH_SAMPLES
    /\ Len(handed) % BUFFER_FLUSH_SAMPLES # 0
    /\ Len(handedG) % GRAPHICS_BUFFER_FLUSH_SAMPLES # 0

\* the rows of a table that belong to one recording, in rowid order
RowsOf(table, rid) == SelectSeq(table, LAMBDA row : row.recording_id = rid)
RecordingsOf(source_file) ==
    {i \in DOMAIN store.recordings : store.recordings[i].source_file = source_file}

\* C6: however often the exporter is run on the same raw log, in single-file
\* mode or in batch mode, the store holds at most one recordings row for
\* that source filename.
C6_OneRowPerSourceFile ==
    \A name \in LogNames : Cardinality(RecordingsOf(name)) <= 1

\* C7: when the export of one raw log fails at any step, reading or
\* inserting the graphics rows included, the tables of the store are what
\* they were before the run.
C7_AllOrNothing ==
    (run.mode = "single" /\ run.outcomes # <<"ok">>)
        => Tables(store) = Tables(run.before)

\* C8: every recordings row has sample_count = n = the number of physics
\* rows of that recording, duration_secs = n / target_hz, and its i-th
\* physics row (0-based, in input order) has time_offset = i / target_hz,
\* where n and target_hz are those of the raw log it was exported from.
C8_CountsAndOffsets ==
    \A k \in DOMAIN store.recordings :
        LET rec == store.recordings[k]
            log == read_rkyv(logs[rec.source_file].file)
            n == Len(log.records)
            rows == RowsOf(store.physics, rec.id)
        IN  /\ rec.sample_count = n
            /\ Len(rows) = n
            /\ RatEq(rec.duration_secs, Rat(n, log.sample_rate))
            /\ \A i \in 0..(n - 1) :
                  /\ RatEq(rows[i + 1].time_offset, Rat(i, log.sample_rate))
                  /\ rows[i + 1].packet_id = log.records[i + 1].packet_id

\* two recordings in the store, one of them exported from a raw log of
\* several chunks
C8_Witness ==
    /\ Len(store.recordings) = 2
    /\ \E k \in DOMAIN store.recordings :
          /\ store.recordings[k].sample_count = MaxSamples
          /\ Len(RowsOf(store.physics, store.recordings[k].id)) > BUFFER_FLUSH_SAMPLES

\* the physics rows the destination holds for the recording of the last run
SlicedRows ==
    SelectSeq(sl.analysis.physics,
              LAMBDA r : r.recording_id = sl.last.recording_id)

\* C9: after a successful slicer run for recording_id R every physics row
\* of R in the destination is a copy of a source row of R, lies within
\* some selected range [s, e] and carries that annotation's id.
C9_RowsWithinRanges ==
    sl.last.result = "ok" =>
        \A i \in DOMAIN SlicedRows :
            LET row == SlicedRows[i] IN
            /\ \E k \in DOMAIN sl.last.ranges :
                  /\ row.annotation_id = sl.last.ranges[k].id
                  /\ RatLe(sl.last.ranges[k].start, row.time_offset)
                  /\ RatLe(row.time_offset, sl.last.ranges[k].end)
            /\ \E j \in DOMAIN sl.telemetry.physics :
                  /\ sl.telemetry.physics[j].recording_id = row.recording_id
                  /\ RatEq(sl.telemetry.physics[j].time_offset, row.time_offset)
                  /\ sl.telemetry.physics[j].packet_id = row.packet_id

\* a second successful run for a recording whose ranges were changed in
\* between: it leaves fewer rows than it found, and some source row of the
\* recording lies after the end of every range
C9_Witness ==
    /\ sl.last.result = "ok"
    /\ sl.last.count = 2
    /\ Len(SlicedRows) > 0
    /\ sl.last.before.physics > Len(SlicedRows)
    /\ \E j \in DOMAIN sl.telemetry.physics :
          /\ sl.telemetry.physics[j].recording_id = sl.last.recording_id
          /\ \A k \in DOMAIN sl.last.ranges :
                /\ RatLe(sl.last.ranges[k].start, sl.telemetry.physics[j].time_offset)
                /\ ~RatLe(sl.telemetry.physics[j].time_offset, sl.last.ranges[k].end)

NoRowsOfLastRecording ==
    RowCounts(sl.analysis, sl.last.recording_id)
        = [physics |-> 0, graphics |-> 0, statics |-> 0, recordings |-> 0]

AnalysisTables(db) ==
    [recordings |-> db.recordings, statics |-> db.statics, graphics |-> db.graphics,
     physics |-> db.physics, annotation |-> db.annotation, tag |-> db.tag,
     annotation_tag |-> db.annotation_tag]

\* a step that is a slicer run ending with the given result
SliceRunEnds(results) ==
    /\ sl'.last.count = sl.last.count + 1
    /\ sl'.last.result \in results

\* C11: when a statement of the slicer's transaction fails, the destination
\* holds exactly the rows it held before the run, and the backup made at the
\* start of the run (a copy of the destination as it was) is on disk.
C11_FailedCopyChangesNothing ==
    [][SliceRunEnds({"err_tx"}) =>
          /\ AnalysisTables(sl'.analysis) = AnalysisTables(sl.analysis)
          /\ sl.analysis.exists => sl'.backup = <<sl.analysis>>]_vars

\* a run whose transaction failed on a destination that held rows of the
\* recording and tags of an earlier run
C11_Witness ==
    /\ sl.last.result = "err_tx"
    /\ sl.last.before.physics > 0
    /\ sl.last.before.recordings > 0
    /\ RowCounts(sl.analysis, sl.last.recording_id) = sl.last.before
    /\ sl.backup # <<>>
    /\ AnalysisTables(sl.backup[1]) = AnalysisTables(sl.analysis)

\* C12: every slicer run that changes the rows of an existing destination
\* store, the run that clears a recording for want of annotations included,
\* leaves a backup that is a copy of the destination as it was before the
\* run, whether the run succeeds or fails.
C12_BackupBeforeEveryMutation ==
    [][(/\ sl'.last.count = sl.last.count + 1
        /\ sl.analysis.exists
        /\ AnalysisTables(sl'.analysis) # AnalysisTables(sl.analysis))
          => sl'.backup = <<sl.analysis>>]_vars

\* C13: the header written by Recorder::new reads back: the physics log
\* starts with ACCR and read_rkyv decodes version 1 and rate 333 from it,
\* the graphics log starts with ACCG and read_graphics_rkyv decodes
\* version 1 and rate 60; each reader rejects the other's log and yields
\* no records from it.
C13_HeaderRoundTrip ==
    recorder.state = "dropped" =>
        /\ Values(SubSeq(recorder.file, 1, 4)) = FILE_MAGIC
        /\ read_rkyv(recorder.file).ok
        /\ read_rkyv(recorder.file).version = FILE_VERSION
        /\ read_rkyv(recorder.file).sample_rate = TARGET_HZ
        /\ ~read_graphics_rkyv(recorder.file).ok
        /\ read_graphics_rkyv(recorder.file).records = <<>>
        /\ recorder.graphics_enabled =>
              /\ Values(SubSeq(recorder.graphics_file, 1, 4)) = GRAPHICS_FILE_MAGIC
              /\ read_graphics_rkyv(recorder.graphics_file).ok
              /\ read_graphics_rkyv(recorder.graphics_file).version = FILE_VERSION
              /\ read_graphics_rkyv(recorder.graphics_file).sample_rate
                    = GRAPHICS_TARGET_HZ
              /\ ~read_rkyv(recorder.graphics_file).ok
              /\ read_rkyv(recorder.graphics_file).records = <<>>

\* both logs were written, with records after the header, and closed
C13_Witness ==
    /\ pc = "api"
    /\ recorder.state = "dropped"
    /\ recorder.graphics_enabled
    /\ Len(recorder.file) > HEADER_BYTES
    /\ Len(recorder.graphics_file) > HEADER_BYTES

\* the cells of the mapping that a string read of the last call covers:
\* those from its offset on, at most its capacity
CellsInReach ==
    LET mapped == (IF probe.call.offset >= SegSize THEN 0
                   ELSE SegSize - probe.call.offset) \div 2
    IN  IF probe.call.count <= mapped THEN probe.call.count ELSE mapped

\* C14 as stated: a string decoded with capacity N has at most N-1
\* characters.
C14_AtMostCapacityMinusOne ==
    (probe.call.fn = "read_utf16_string_at" /\ probe.call.out.kind = "ok")
        => Len(probe.call.out.value) <= probe.call.count - 1

\* C14: a string decoded with capacity N has at most N characters, and
\* exactly as many as there are cells in reach when none of them is a null
\* and none is a surrogate.
C14_AtMostCapacity ==
    (probe.call.fn = "read_utf16_string_at" /\ probe.call.out.kind = "ok")
        => /\ Len(probe.call.out.value) <= probe.call.count
           /\ (\A a \in probe.call.out.touched : probe.seg[a + 1] = 65)
                 => Len(probe.call.out.value) = CellsInReach

\* a string read of capacity 2 over two cells without a null
C14_Witness ==
    /\ probe.call.fn = "read_utf16_string_at"
    /\ probe.call.out.kind = "ok"
    /\ probe.call.count = 2
    /\ Len(probe.call.out.value) = 2

\* C15: read_at and read_array_at succeed when offset + size equals the size
\* of the mapping and return an error, reading nothing, when it is larger;
\* no read, read_utf16_string_at included, reads an address outside the
\* mapping.
C15_BoundsChecked ==
    LET c == probe.call
        total == c.count * c.size
    IN  /\ c.fn \in {"read_at", "read_array_at"} =>
              /\ c.offset + total = SegSize => c.out.kind = "ok"
              /\ c.offset + total > SegSize =>
                    c.out.kind = "err" /\ c.out.touched = {}
        /\ c.fn # "none" => c.out.touched \subseteq Mapped

\* the strict enum fields of segment g all hold declared discriminants
StrictInRange(g) ==
    /\ g.status \in AccStatus
    /\ g.session_type \in AccSessionType
    /\ g.flag \in AccFlagType
    /\ g.track_grip_status \in AccTrackGripStatus
    /\ g.rain_intensity \in AccRainIntensity
    /\ g.rain_intensity_in_10min \in AccRainIntensity
    /\ g.rain_intensity_in_30min \in AccRainIntensity

\* C16: decoding the graphics segment fails and yields no map exactly when
\* some strict enum field (status, session type, flag, track grip status,
\* rain intensity, its 10- and 30-minute forecasts) is outside its declared
\* set; the penalty field never causes a failure, a declared value is kept
\* and every other value becomes Unknown.
C16_StrictRejectPenaltyFallback ==
    (probe # <<>> /\ probe.call.fn = "parse_graphics_map") =>
        LET g == probe.seg
            out == probe.call.out
        IN  /\ out.ok <=> StrictInRange(g)
            /\ ~out.ok => out.map = <<>>
            /\ out.ok => out.map.penalty = (IF g.penalty \in AccPenaltyType THEN g.penalty ELSE AccPenaltyType_Unknown)
            /\ out.ok => [out.map EXCEPT !.penalty = g.penalty] = g

\* a frame with an undeclared penalty is decoded with penalty Unknown
C16_Witness ==
    /\ probe # <<>>
    /\ probe.call.fn = "parse_graphics_map"
    /\ probe.call.out.ok
    /\ probe.seg.penalty = 23
    /\ probe.call.out.map.penalty = AccPenaltyType_Unknown

\* what a line yields when read as the sentence says: by the line's own text
RECURSIVE ExpectedAnnotations(_)
ExpectedAnnotations(file) ==
    IF file = <<>> THEN <<>>
    ELSE (IF contains(Head(file), MARKER_PATTERN)
          THEN <<[time_offset_sec |-> ElapsedOf(Head(file)), time_end_sec |-> "None", text |-> TagOf(Head(file)), tag |-> TagOf(Head(file))]>>
          ELSE <<>>) \o ExpectedAnnotations(Tail(file))

\* C17: every line of the notes file yields an annotation exactly when it
\* contains '#marker '; the annotation carries the number of the
\* '[elapsed Ns]' bracket (0 without one), the trimmed text up to the next
\* '#' as tag and text ('marker' when empty) and no end time.
C17_AnnotationPerMarkerLine ==
    (probe # <<>> /\ probe.call.fn = "save_notes_to_json") =>
        probe.call.out.annotations = ExpectedAnnotations(probe.seg)

\* indices (0-based) where field f of records is above th and was not at
\* the previous index; start says whether index 0 counts when it is above
RisingEdges(records, f, th, start) == {i \in 0..(Len(records) - 1) : records[i + 1][f] > th /\ (IF i = 0 THEN start ELSE records[i][f] <= th)}
Least(S) == CHOOSE i \in S : \A j \in S : i <= j
\* the annotations of list out that carry tag
Tagged(out, tag) == {k \in DOMAIN out : out[k].tag = tag}
\* list out holds one air-temp annotation per index of air, one speed
\* annotation at the least index of speed, ascending, at index / target_hz
SyncListIs(out, air, speed) ==
    /\ DOMAIN out = Tagged(out, "sync_air_temp_gt_0") \cup Tagged(out, "sync_speed_gt_0")
    /\ Cardinality(Tagged(out, "sync_air_temp_gt_0")) = Cardinality(air)
    /\ \A i \in air : \E k \in Tagged(out, "sync_air_temp_gt_0") : RatEq(out[k].time_offset_sec, Rat(i, TARGET_HZ))
    /\ Cardinality(Tagged(out, "sync_speed_gt_0")) = (IF speed = {} THEN 0 ELSE 1)
    /\ \A k \in Tagged(out, "sync_speed_gt_0") : RatEq(out[k].time_offset_sec, Rat(Least(speed), TARGET_HZ))
    /\ \A j, k \in DOMAIN out : j < k => RatLe(out[j].time_offset_sec, out[k].time_offset_sec)

\* C18 as stated: an annotation only where the previous index was at or
\* below the threshold and this one is above it (air temp: every such
\* index; speed: the first such index only), ascending by time, at
\* index / target_hz.
C18_EdgesFromPreviousIndex ==
    (probe # <<>> /\ probe.call.fn = "sync_annotations_from_physics") =>
        SyncListIs(probe.call.out, RisingEdges(probe.seg, "air_temp", 0, FALSE), RisingEdges(probe.seg, "speed_kmh", 3, FALSE))

\* C18: as above, with index 0 counted as a rising edge when the first
\* record is already above the threshold.
C18_EdgesWithStart ==
    (probe # <<>> /\ probe.call.fn = "sync_annotations_from_physics") =>
        SyncListIs(probe.call.out, RisingEdges(probe.seg, "air_temp", 0, TRUE), RisingEdges(probe.seg, "speed_kmh", 3, TRUE))

\* two air-temp edges and a second speed crossing that is ignored
C18_Witness ==
    /\ probe # <<>>
    /\ probe.call.fn = "sync_annotations_from_physics"
    /\ Cardinality(RisingEdges(probe.seg, "air_temp", 0, TRUE)) = 2
    /\ Cardinality(RisingEdges(probe.seg, "speed_kmh", 3, TRUE)) = 2
    /\ Len(probe.call.out) = 3

\* the capture returned normally and no frame was handed to the Recorder
EmptyCapture == pc = "done" /\ exit = "ok" /\ handed = <<>>
\* the files an empty capture leaves, as the exporter finds them
CapturedLog == [file |-> recorder.file, graphics |-> IF recorder.graphics_enabled THEN <<recorder.graphics_file>> ELSE <<>>, statics |-> statics # <<>>, notes |-> <<>>]

\* C19: after a capture that ends before any frame is recorded, the physics
\* raw log is the 16-byte header with no chunk behind it, and exporting it
\* fails with "No records" and leaves the analytical store, absent or
\* filled, as it was.
C19_EmptyCaptureRejected ==
    EmptyCapture =>
        /\ Len(recorder.file) = HEADER_BYTES
        /\ recorder.file = Header(FILE_MAGIC, TARGET_HZ)
        /\ CountChunks(recorder.file, HEADER_BYTES + 1) = 0
        /\ \A st \in {EmptyStore, TelemetryStore}, fail \in FailKinds :
              export_single(st, "a.rkyv", CapturedLog, fail) = [result |-> "err_no_records", store |-> st]

\* an empty capture that ran the loop: every poll missed
C19_Witness ==
    /\ EmptyCapture
    /\ consecutive_none > 0
    /\ export_single(EmptyStore, "a.rkyv", CapturedLog, "none").result = "err_no_records"

\* C20: whenever the stop of a capture writes <log>.notes.json, at least one
\* scratch notes file (acr_notes or an acr_<field> file) existed at that
\* moment; with no scratch file, no NoteBundle appears.
C20_BundleOnlyWithScratch ==
    [][(files.notes_json = <<>> /\ files'.notes_json # <<>>) => files.scratch \cap ({NOTES_FILENAME} \cup FieldFiles) # {}]_vars
\* sequence old is the beginning of sequence new
IsPrefix(old, new) == Len(old) <= Len(new) /\ SubSeq(new, 1, Len(old)) = old
\* the ids of the recordings rows of store st
RecordingIdsOf(st) == {st.recordings[i].id : i \in DOMAIN st.recordings}

\* C21: a run of the exporter on a store that already holds recordings
\* leaves every recordings, statics, notes, annotation, physics and graphics
\* row it found in place and unchanged, and every recordings row it adds
\* has an id that no row had before and no other row has now.
C21_NewIdOldRowsIntact ==
    run.count > 0 =>
        /\ IsPrefix(run.before.recordings, store.recordings)
        /\ IsPrefix(run.before.statics, store.statics)
        /\ IsPrefix(run.before.recording_notes, store.recording_notes)
        /\ IsPrefix(run.before.annotations, store.annotations)
        /\ IsPrefix(run.before.physics, store.physics)
        /\ IsPrefix(run.before.graphics, store.graphics)
        /\ \A i \in DOMAIN store.recordings : i > Len(run.before.recordings) => store.recordings[i].id \notin RecordingIdsOf(run.before)
        /\ \A i, j \in DOMAIN store.recordings : store.recordings[i].id = store.recordings[j].id => i = j

\* the second of two back-to-back runs exported a different raw log into a
\* store whose first recording has physics, graphics and annotation rows
C21_Witness ==
    /\ run.count = 2 /\ run.mode = "single" /\ run.outcomes = <<"ok">>
    /\ Len(run.before.recordings) = 1 /\ Len(store.recordings) = 2
    /\ store.recordings[1].source_file # store.recordings[2].source_file
    /\ store.recordings[1].id # store.recordings[2].id
    /\ RowsOf(run.before.physics, store.recordings[1].id) # <<>>
    /\ RowsOf(run.before.graphics, store.recordings[1].id) # <<>>
    /\ RowsOf(run.before.annotations, store.recordings[1].id) # <<>>
    /\ RowsOf(store.graphics, store.recordings[2].id) # <<>>
\* the descriptors of the file form a chain: the first has prev 0, the
\* last has next 0, each next is where the following descriptor lies and
\* each prev where the preceding one lies
LdChain(chans) ==
    /\ chans[1].prev = 0
    /\ chans[Len(chans)].next = 0
    /\ \A k \in 1..(Len(chans) - 1) : chans[k].next = chans[k + 1].at /\ chans[k + 1].prev = chans[k].at
\* the data pointers follow one another from the end of the last descriptor
LdContiguous(chans) ==
    /\ chans[1].data_ptr = chans[Len(chans)].at + chan_head_size
    /\ \A k \in 1..(Len(chans) - 1) : chans[k + 1].data_ptr = chans[k].data_ptr + F32_BYTES * chans[k].n_data

\* C22: in every file write_ld has written in full, for any number n of
\* records, the channel descriptors form a consistent doubly linked chain,
\* the data pointers are contiguous from the end of the last descriptor,
\* and every channel has n elements.
C22_ChainAndContiguousData ==
    probe.pc = "done" =>
        /\ Len(probe.chans) = NumChannels
        /\ LdChain(probe.chans)
        /\ LdContiguous(probe.chans)
        /\ \A k \in 1..NumChannels : probe.chans[k].n_data = probe.n
\* C23: a batch run returns success and has an outcome (exported, skipped
\* or a logged error) for every raw log of the directory, whatever fails on
\* single files: an unreadable, corrupt or empty log, the already-exported
\* check, or the database write.
C23_BatchContinues ==
    run.mode = "batch" => run.ok /\ Len(run.outcomes) = Len(SortedLogNames)
\* C24: once Recorder::new has returned with graphics enabled, the physics
\* log and the graphics log each have a sidecar next to them that gives
\* that log's own magic and target sample rate.
C24_SidecarForEachLog ==
    (recorder.state = "open" /\ recorder.graphics_enabled) =>
        /\ recorder.json # <<>>
        /\ recorder.json[1].magic = FILE_MAGIC /\ recorder.json[1].sample_rate_hz = TARGET_HZ
        /\ recorder.graphics_json # <<>>
        /\ recorder.graphics_json[1].magic = GRAPHICS_FILE_MAGIC
        /\ recorder.graphics_json[1].sample_rate_hz = GRAPHICS_TARGET_HZ
\* a step in which the loop polled shared memory once more
Polled ==
    /\ pc = "loop"
    /\ emitted' # emitted \/ consecutive_none' # consecutive_none \/ observed' # observed \/ exit' = "decode_error"

\* C25: the loop never polls again once the stop file exists or the
\* running flag is cleared when its condition is evaluated: the only step
\* main takes then is the exit from the loop; a stop file seen by the
\* condition is deleted in that step, and a capture that starts later
\* enters its loop without a stop file.
C25_StopsAtEvaluation ==
    [][/\ Polled => (RUNNING /\ ~stop_file)
       /\ (pc = "loop" /\ (~RUNNING \/ stop_file) /\ pc' # pc) => pc' = "stopping"
       /\ (pc = "loop" /\ pc' = "stopping" /\ RUNNING) => (stop_file /\ ~stop_file')
       /\ (pc = "start" /\ pc' = "loop") => ~stop_file']_vars

\* a capture that recorded frames and then left the loop because of the
\* stop file, which is gone
C25_Witness ==
    /\ pc = "stopping" /\ RUNNING /\ ~stop_file
    /\ handed # <<>> /\ consecutive_none > 0
\* the decoded frame has another sequence_id than the stored one, and its
\* suspension travel differs from the stored frame's (or none is stored)
BothChecksPass(a, p) ==
    /\ p.packet_id # a.last_physics_id
    /\ (a.last_physics = <<>> \/ p.suspension_travel # a.last_physics[1].suspension_travel)
GateCalled == probe # <<>> /\ probe.call.fn = "read_shared_memory"

SameFrameThrice == pc = "loop" /\ Len(observed.lead) = 3
ThenNewFrame == pc = "loop" /\ Len(observed.lead) = 4

\* C27: when the shared memory shows the same frame on three consecutive
\* polls from capture start and then a new frame, exactly one physics record
\* has been written after the first three polls and exactly two after the
\* poll that sees the new frame.
C27_OneRecordThenTwo ==
    /\ SameFrameThrice => Len(handed) = 1 /\ recorder.sample_count = 1
    /\ ThenNewFrame => Len(handed) = 2 /\ recorder.sample_count = 2
\* a loop iteration that hit / that missed and moved the counter
HitStep == pc = "loop" /\ emitted' # emitted
MissStep == pc = "loop" /\ pc' = "loop" /\ emitted' = emitted /\ consecutive_none' # consecutive_none

\* C28: the consecutive-miss counter is 0 right after every hit and goes up
\* by one on every miss (it stays at its maximum once there); after a miss
\* the loop sleeps the poll interval when the counter is below the idle
\* threshold and the idle interval when it is at or above it; no sleep
\* happens after a hit.  Nothing but a loop iteration moves the counter.
C28_CounterAndSleep ==
    [][ /\ HitStep => consecutive_none' = 0 /\ last_sleep' = "none"
        /\ MissStep => /\ consecutive_none' = consecutive_none + 1
                       /\ last_sleep' = IF consecutive_none' < IDLE_THRESHOLD THEN "poll" ELSE "idle"
        /\ consecutive_none' # consecutive_none => HitStep \/ MissStep
        /\ last_sleep' = "poll" => consecutive_none' \in 1..(IDLE_THRESHOLD - 1)
        /\ last_sleep' = "idle" => consecutive_none' >= IDLE_THRESHOLD
        /\ last_sleep' = "none" => consecutive_none' = 0
      ]_vars

\* a recorded frame, then misses up to the threshold: the idle sleep
C28_Witness ==
    /\ handed # <<>>
    /\ consecutive_none = IDLE_THRESHOLD
    /\ last_sleep = "idle"
\* file f from cell p on is a run of chunks, each a length prefix n >= 1
\* followed by exactly n payload cells that hold an archived vector
RECURSIVE WellChunked(_, _)
WellChunked(f, p) ==
    \/ p = Len(f) + 1
    \/ /\ p <= Len(f)
       /\ f[p].tag = "u32" /\ f[p].n >= 1 /\ p + f[p].n <= Len(f)
       /\ \A i \in (p + 1)..(p + f[p].n - 1) : f[i].tag = "rec"
       /\ f[p + f[p].n].tag = "root" /\ f[p + f[p].n].n = f[p].n - 1
       /\ WellChunked(f, p + f[p].n + 1)
\* the records a log on disk holds; while nothing was flushed the header is
\* still in the BufWriter and the file is empty
OnDisk(f, magic) == IF f = <<>> THEN <<>> ELSE ReadLog(f, magic).records
ChunksOf(f) == IF f = <<>> THEN 0 ELSE CountChunks(f, HEADER_BYTES + 1)

\* C29: after every call to record (resp. record_graphics) the in-memory
\* physics (resp. graphics) batch is below its flush threshold; the call
\* writes a chunk exactly when the batch reaches the threshold, one chunk,
\* holding exactly the frames appended since the previous chunk, and the
\* batch is empty afterwards; each chunk on disk is a length prefix followed
\* by exactly that many payload bytes.
C29_ChunkAtThreshold ==
    [][ /\ handed' # handed =>
            /\ Len(recorder'.buffer) < BUFFER_FLUSH_SAMPLES
            /\ recorder'.file # recorder.file <=> Len(recorder.buffer) + 1 = BUFFER_FLUSH_SAMPLES
            /\ recorder'.file # recorder.file =>
                  /\ recorder'.buffer = <<>>
                  /\ ChunksOf(recorder'.file) = ChunksOf(recorder.file) + 1
                  /\ OnDisk(recorder'.file, FILE_MAGIC) = handed'
            /\ recorder'.file = recorder.file => recorder'.buffer = Append(recorder.buffer, handed'[Len(handed')])
        /\ handedG' # handedG =>
            /\ Len(recorder'.graphics_buffer) < GRAPHICS_BUFFER_FLUSH_SAMPLES
            /\ recorder'.graphics_file # recorder.graphics_file <=> Len(recorder.graphics_buffer) + 1 = GRAPHICS_BUFFER_FLUSH_SAMPLES
            /\ recorder'.graphics_file # recorder.graphics_file =>
                  /\ recorder'.graphics_buffer = <<>>
                  /\ ChunksOf(recorder'.graphics_file) = ChunksOf(recorder.graphics_file) + 1
                  /\ OnDisk(recorder'.graphics_file, GRAPHICS_FILE_MAGIC) = handedG'
            /\ recorder'.graphics_file = recorder.graphics_file => recorder'.graphics_buffer = Append(recorder.graphics_buffer, handedG'[Len(handedG')])
        /\ recorder'.state = "open" =>
            /\ OnDisk(recorder'.file, FILE_MAGIC) \o recorder'.buffer = handed'
            /\ OnDisk(recorder'.graphics_file, GRAPHICS_FILE_MAGIC) \o recorder'.graphics_buffer = handedG'
        /\ recorder'.file # <<>> => WellChunked(recorder'.file, HEADER_BYTES + 1)
        /\ recorder'.graphics_file # <<>> => WellChunked(recorder'.graphics_file, HEADER_BYTES + 1)
      ]_vars

\* both batches reached their threshold inside record / record_graphics: one
\* chunk each, holding a full batch
C29_Witness ==
    /\ pc = "api" /\ recorder.state = "open"
    /\ Len(handed) = BUFFER_FLUSH_SAMPLES /\ ChunksOf(recorder.file) = 1 /\ recorder.buffer = <<>>
    /\ Len(handedG) = GRAPHICS_BUFFER_FLUSH_SAMPLES /\ ChunksOf(recorder.graphics_file) = 1
\* the records of the chunks that precede the first zero prefix
RECURSIVE UpToZero(_)
UpToZero(items) ==
    IF items = <<>> \/ Head(items) = <<>> THEN <<>> ELSE Head(items) \o UpToZero(Tail(items))
NoZeroPrefix(f) == \A i \in 1..Len(f) : f[i].tag = "u32" => f[i].n # 0
ChunksCalled(fn) == probe # <<>> /\ probe.call.fn = fn

\* C30: read_rkyv of a file of whole chunks returns Ok with the records of
\* all chunks up to end of file or the first zero length prefix, whichever
\* comes first, and ignores what follows a zero prefix; flush and
\* flush_graphics of an empty batch write nothing, and no file or writer
\* buffer left by a flush holds a zero length prefix.
C30_StopAtZeroNeverWritten ==
    /\ ChunksCalled("read_rkyv") =>
          /\ probe.call.out.ok
          /\ probe.call.out.records = UpToZero(probe.items)
    /\ ChunksCalled("flush") =>
          /\ probe.rec.buffer = <<>> => probe.call.out = probe.rec
          /\ NoZeroPrefix(probe.call.out.file \o probe.call.out.writer)
    /\ ChunksCalled("flush_graphics") =>
          /\ probe.rec.graphics_buffer = <<>> => probe.call.out = probe.rec
          /\ NoZeroPrefix(probe.call.out.graphics_file \o probe.call.out.graphics_writer)

\* a chunk, a zero prefix, a chunk: the read returns the first chunk only
C30_Witness ==
    /\ ChunksCalled("read_rkyv")
    /\ Len(probe.items) = 3
    /\ probe.items[1] # <<>> /\ probe.items[2] = <<>> /\ probe.items[3] # <<>>
    /\ probe.call.out.records = probe.items[1]
\* the statics the initial read returned, as a StaticsRecord, if it returned any
InitialStatics ==
    IF observed.initial # <<>> /\ observed.initial[1].kind = "some"
    THEN <<StaticsRecord_from_statics(observed.initial[1].statics[1])>> ELSE <<>>

\* C31: statics are captured once, by the read made before the loop: the
\* sidecar written by Recorder::new embeds the statics of that read, or none
\* when that read returned no fresh data, and no later step of the capture
\* (a poll of the loop, the stop, the final flush) changes the captured
\* statics or the sidecar.
C31_StaticsOnceAtStart ==
    [][ /\ (pc = "start" /\ pc' = "loop") =>
              /\ statics' = InitialStatics'
              /\ recorder'.json # <<>> /\ recorder'.json[1].statics = InitialStatics'
        /\ pc # "start" => statics' = statics /\ recorder'.json = recorder.json /\ observed'.initial = observed.initial
      ]_vars

\* the initial read returned an aggregate, its statics are in the sidecar, and
\* the loop has since recorded a frame
C31_Witness ==
    /\ pc = "loop"
    /\ InitialStatics # <<>>
    /\ recorder.json[1].statics = InitialStatics
    /\ handed # <<>>
\* C32: every slicer run brackets its writes to the destination in one
\* transaction, the run that finds no annotation included: when a statement
\* of the run fails (a DELETE of the clear, or a statement of the copy), the
\* destination holds the rows it held before the run.
C32_AllWritesInOneTransaction ==
    [][SliceRunEnds({"err_delete", "err_tx"}) => AnalysisTables(sl'.analysis) = AnalysisTables(sl.analysis)]_vars
\* the physics rows a store holds for one recording
PhysicsOf(db, recording_id) == SelectSeq(db.physics, LAMBDA r : r.recording_id = recording_id)
\* the ids of the rows of a table
IdsOf(table) == {table[i].id : i \in DOMAIN table}
\* the ids of the annotations a run selected
SelectedIds(ranges) == {ranges[i].id : i \in DOMAIN ranges}
\* the mirror tables of db hold the rows of the annotation store g for the
\* annotations in ids, and nothing else
MirrorIsImportOf(db, g, ids) ==
    /\ db.annotation = SelectSeq(g.annotation, LAMBDA r : r.id \in ids)
    /\ db.annotation_tag = SelectSeq(g.annotation_tag, LAMBDA r : r.annotation_id \in ids)
    /\ IdsOf(db.tag) = {db.annotation_tag[j].tag_id : j \in DOMAIN db.annotation_tag}
    /\ \A k \in DOMAIN db.tag : \E m \in DOMAIN g.tag : g.tag[m] = db.tag[k]
\* a successful run for recording B left the slices of every other recording
\* in place and the mirror tables holding the import for B alone
OthersKeptMirrorReplaced ==
    /\ \A A \in RecordingIds \ {sl'.last.recording_id} :
          PhysicsOf(sl'.analysis, A) = PhysicsOf(sl.analysis, A)
    /\ MirrorIsImportOf(sl'.analysis, sl.grafana, SelectedIds(sl'.last.ranges))

\* C33 as stated: after a successful run for recording B on a destination
\* that holds physics slices of another recording A, A's rows are still there,
\* the mirror tables hold only the rows imported for B, and no physics row of
\* A has its annotation_id in the annotation table.
C33_OtherRecordingAlwaysDangling ==
    [][SliceRunEnds({"ok"}) =>
          /\ OthersKeptMirrorReplaced
          /\ \A A \in RecordingIds \ {sl'.last.recording_id} :
                \A i \in DOMAIN PhysicsOf(sl'.analysis, A) :
                    PhysicsOf(sl'.analysis, A)[i].annotation_id \notin IdsOf(sl'.analysis.annotation)]_vars

\* C33: after a successful run for recording B on a destination that holds
\* physics slices of another recording A, A's rows are still there, the
\* mirror tables hold only the rows imported for B, and a physics row of A
\* has its annotation_id in the annotation table only when its annotation
\* is one of those selected for B (it carries the tags of both recordings).
C33_OtherRecordingDanglingUnlessShared ==
    [][SliceRunEnds({"ok"}) =>
          /\ OthersKeptMirrorReplaced
          /\ \A A \in RecordingIds \ {sl'.last.recording_id} :
                \A i \in DOMAIN PhysicsOf(sl'.analysis, A) :
                    PhysicsOf(sl'.analysis, A)[i].annotation_id \in IdsOf(sl'.analysis.annotation)
                        <=> PhysicsOf(sl'.analysis, A)[i].annotation_id \in SelectedIds(sl'.last.ranges)]_vars

\* after a run for one recording the other recording's slices are in the
\* destination with an annotation_id that the annotation table does not hold
C33_Witness ==
    /\ sl.last.result = "ok" /\ sl.last.count = 2
    /\ \E A \in RecordingIds \ {sl.last.recording_id} :
          /\ PhysicsOf(sl.analysis, A) # <<>>
          /\ \A i \in DOMAIN PhysicsOf(sl.analysis, A) :
                PhysicsOf(sl.analysis, A)[i].annotation_id \notin IdsOf(sl.analysis.annotation)
    /\ sl.analysis.annotation # <<>>
\* C34: the slicer import is replace-all for its recording: a run that
\* directly follows a successful run for the same recording_id, with the
\* annotation store and the source store unchanged, leaves every table of
\* the destination with the rows the first run left.
C34_SecondRunSameRows ==
    [][(/\ SliceRunEnds({"ok", "ok_cleared"})
        /\ sl.last.result \in {"ok", "ok_cleared"}
        /\ sl.last.recording_id = sl'.last.recording_id
        /\ sl'.grafana = sl.grafana /\ sl'.telemetry = sl.telemetry)
          => AnalysisTables(sl'.analysis) = AnalysisTables(sl.analysis)]_vars

\* the second of two successful runs for one recording, on a destination
\* that the first run had filled
C34_Witness ==
    /\ sl.last.result = "ok" /\ sl.last.count = 2
    /\ sl.last.before.physics > 0 /\ sl.last.before.recordings > 0
    /\ RowCounts(sl.analysis, sl.last.recording_id) = sl.last.before
    /\ sl.analysis.annotation # <<>>
\* C35: the annotation rows the exporter inserts for one recording are in
\* ascending order of time_offset_sec: of any two, the one inserted earlier
\* has a time_offset_sec less than or equal to the other's.
C35_AnnotationsAscending ==
    \A rid \in RecordingIdsOf(store) :
        LET rows == RowsOf(store.annotations, rid) IN
        \A i \in DOMAIN rows, j \in DOMAIN rows :
            i < j => /\ rows[i].id < rows[j].id
                     /\ RatLe(rows[i].time_offset_sec, rows[j].time_offset_sec)

\* a recording with sync annotations between two user annotations that the
\* bundle lists latest first
C35_Witness ==
    \E rid \in RecordingIdsOf(store) :
        LET rows == RowsOf(store.annotations, rid) IN
        /\ Len(rows) >= 3
        /\ rows[1].tag = "good" /\ rows[Len(rows)].tag = "aborted"
        /\ \E i \in DOMAIN rows : rows[i].tag = "sync_air_temp_gt_0"
\* the step in which save_notes_to_json returns Ok
SaveSucceeds == pc = "stopping" /\ pc' = "done" /\ files'.notes_json # <<>>

\* C36: when save_notes_to_json succeeds, exactly one NoteBundle is written
\* and no scratch file (acr_notes, acr_<field>, acr_elapsed_secs) remains;
\* whichever of them were absent, the bundle says notes only when acr_notes
\* was there and has an entry for exactly the field files that were there,
\* and an absent notes file reads as an empty body without annotations.
C36_ScratchGoneBundleWritten ==
    [][SaveSucceeds => /\ Len(files'.notes_json) = 1
                       /\ files'.scratch = {}
                       /\ files'.notes_json[1].notes = (NOTES_FILENAME \in files.scratch)
                       /\ files'.notes_json[1].fields = files.scratch \cap FieldFiles
                       /\ NotesPayload(<<>>) = [notes |-> <<>>, annotations |-> <<>>]]_vars
\* a capture that ticked the elapsed file, got a field file but no acr_notes,
\* and was saved
C36_Witness ==
    /\ pc = "done" /\ exit = "ok"
    /\ files.scratch = {}
    /\ Len(files.notes_json) = 1
    /\ files.notes_json[1].notes = FALSE
    /\ files.notes_json[1].fields = FieldFiles
    /\ recorder.sample_count > 0
\* the polls of the call so far, all but the last one, found nothing fresh
EarlierPollsMissed == \A i \in 1..(Len(probe.polls) - 1) : probe.polls[i].kind = "none" /\ ~probe.polls[i].fresh
LastPoll == probe.polls[Len(probe.polls)]
\* what holds of a call of wait_for_data at every moment
WaitSafe ==
    /\ Len(probe.polls) <= MAX_ATTEMPTS
    /\ EarlierPollsMissed
    /\ probe.returned = "data" => /\ Len(probe.polls) >= 1
                                  /\ LastPoll.kind = "some" /\ LastPoll.fresh
                                  /\ probe.acc.last_physics = <<LastPoll.p>>
    /\ probe.returned = "err" => Len(probe.polls) >= 1 /\ LastPoll.kind = "err" /\ LastPoll.fresh
    /\ probe.returned \in {"no", "timeout"} => /\ probe.attempts = Len(probe.polls)
                                                /\ Len(probe.polls) >= 1 => LastPoll.kind = "none"
    /\ probe.returned = "timeout" => probe.elapsed >= probe.timeout \/ probe.attempts = MAX_ATTEMPTS

GateFailedLate == probe.call.fn = "read_shared_memory" /\ probe.call.out.kind = "err" /\ IsFresh(probe.seg.acc, probe.seg.physics)

\* C38: when read_shared_memory fails in a decode after the physics frame
\* passed both freshness checks, last_physics_id and last_physics are what
\* they were, the frame is still fresh to the gate, and the next call that
\* finds the same frame and decodable segments returns it.
C38_FailedReadKeepsFrameFresh ==
    GateFailedLate =>
        /\ probe.call.out.acc = probe.seg.acc
        /\ IsFresh(probe.call.out.acc, probe.seg.physics)
        /\ \A g \in GraphicsContents : parse_graphics_map(g).ok =>
               read_shared_memory(probe.call.out.acc, probe.seg.physics, g) = [kind |-> "some", acc |-> GateStore(probe.seg.acc, probe.seg.physics)]
\* a failed decode on a gate that already held an earlier frame
C38_Witness ==
    /\ GateFailedLate
    /\ probe.seg.acc.last_physics # <<>>
    /\ \E g \in GraphicsContents : parse_graphics_map(g).ok
\* every annotation_tag row of db points at an annotation row and a tag row
\* of db
LinksClosed(db) ==
    \A j \in DOMAIN db.annotation_tag :
        /\ db.annotation_tag[j].annotation_id \in IdsOf(db.annotation)
        /\ db.annotation_tag[j].tag_id \in IdsOf(db.tag)

\* C39: after a successful slicer run that selected at least one annotation,
\* every annotation_tag row of the destination refers to an annotation row
\* and a tag row of the destination, the annotation table holds exactly the
\* selected annotations, each once, and every physics row of the run's
\* recording has its annotation_id in the annotation table.
C39_MirrorClosedAfterRun ==
    (sl.last.result = "ok" /\ sl.last.ranges # <<>>) =>
        /\ LinksClosed(sl.analysis)
        /\ sl.analysis.annotation = SelectSeq(sl.grafana.annotation, LAMBDA r : r.id \in SelectedIds(sl.last.ranges))
        /\ Cardinality(IdsOf(sl.analysis.annotation)) = Len(sl.analysis.annotation)
        /\ \A i \in DOMAIN PhysicsOf(sl.analysis, sl.last.recording_id) :
               PhysicsOf(sl.analysis, sl.last.recording_id)[i].annotation_id \in IdsOf(sl.analysis.annotation)
\* a second run that selected two annotations, one of them carrying the tags
\* of both recordings, and copied physics rows for them
C39_Witness ==
    /\ sl.last.result = "ok" /\ sl.last.count = 2
    /\ Len(sl.last.ranges) = 2
    /\ Len(sl.analysis.annotation_tag) > 2
    /\ Len(sl.analysis.tag) = 2
    /\ PhysicsOf(sl.analysis, sl.last.recording_id) # <<>>
\* the positions of the rows of a source table that belong to a recording
\* and lie inside a range
RowsInRange(rows, recording_id, r) == {k \in DOMAIN rows : rows[k].recording_id = recording_id /\ InRange(rows[k].time_offset, r.start, r.end)}
\* the sum over the ranges of the number of source rows inside each
RECURSIVE SumInRanges(_, _, _, _)
SumInRanges(rows, recording_id, ranges, i) ==
    IF i > Len(ranges) THEN 0
    ELSE Cardinality(RowsInRange(rows, recording_id, ranges[i])) + SumInRanges(rows, recording_id, ranges, i + 1)
\* how many rows of a table equal row
Copies(table, row) == Cardinality({k \in DOMAIN table : table[k] = row})
\* the ranges of the last run that hold time t
RangesHolding(t) == {i \in DOMAIN sl.last.ranges : InRange(t, sl.last.ranges[i].start, sl.last.ranges[i].end)}
\* two ranges of the last run share a source physics row and a graphics row
RangesOverlap ==
    /\ \E k \in DOMAIN sl.telemetry.physics :
          sl.telemetry.physics[k].recording_id = sl.last.recording_id /\ Cardinality(RangesHolding(sl.telemetry.physics[k].time_offset)) = 2
    /\ \E k \in DOMAIN sl.telemetry.graphics :
          sl.telemetry.graphics[k].recording_id = sl.last.recording_id /\ Cardinality(RangesHolding(sl.telemetry.graphics[k].time_offset)) = 2

\* C40: after a successful run, each source physics row of the recording is
\* in the destination once for every selected range that holds it, each copy
\* with the annotation_id of its range, so the destination holds as many
\* physics rows for the recording as the ranges hold source rows, summed over
\* the ranges; each source graphics row is there once per range holding it.
C40_OverlapCopiedPerRange ==
    sl.last.result = "ok" =>
        LET rid == sl.last.recording_id
            ranges == sl.last.ranges
            src == sl.telemetry
            db == sl.analysis
        IN  /\ Len(PhysicsOf(db, rid)) = SumInRanges(src.physics, rid, ranges, 1)
            /\ \A i \in DOMAIN ranges : \A k \in RowsInRange(src.physics, rid, ranges[i]) :
                   Copies(db.physics, [recording_id |-> rid, time_offset |-> src.physics[k].time_offset, packet_id |-> src.physics[k].packet_id, annotation_id |-> ranges[i].id]) = 1
            /\ \A k \in DOMAIN src.graphics : src.graphics[k].recording_id = rid =>
                   Copies(db.graphics, src.graphics[k]) = Cardinality(RangesHolding(src.graphics[k].time_offset))
\* a run over two overlapping ranges of one recording
C40_Witness ==
    /\ sl.last.result = "ok"
    /\ Len(sl.last.ranges) = 2
    /\ sl.last.ranges[1] # sl.last.ranges[2]
    /\ RangesOverlap
    /\ Len(PhysicsOf(sl.analysis, sl.last.recording_id)) = 3
====
